---- MODULE Spec2Model ----
(***************************************************************************)
(* Session detection and classification engine of claude-dashboard.        *)
(*                                                                         *)
(* Go strings are modelled as sequences of one-character strings, so that  *)
(* prefix, suffix, substring, split and trim are computed, not assumed.    *)
(* Times are whole seconds since the Unix epoch.                           *)
(***************************************************************************)
EXTENDS Integers, Sequences, FiniteSets, Bags, TLC

VARIABLES
    now,          \* wall clock (seconds)
    \* ---- detectStatus (status classifier) ----
    stIn,         \* inputs of the detectStatus call: last activity, capture result
    stOut,        \* its outcome: status returned, whether the pane was captured
    \* ---- getProcessCWD (cached resolver) ----
    cwdCache,     \* map pid -> cwdCacheEntry, as a set of [pid, path, expires]
    cwdCacheMu,   \* holder of the mutex, or "free"
    cpc,          \* per caller: position inside getProcessCWD
    creq,         \* per caller: the lookup in progress
    lsofCalls,    \* per pid: number of lsof invocations so far
    lookups,      \* number of getProcessCWD calls started
    lastDone,     \* per pid: the most recently completed lookup
    \* ---- the host: tmux server and process table ----
    tmuxMode,     \* "up", "noserver" (tmux exits non-zero) or "error" (tmux cannot be run)
    tmuxSess,     \* the tmux sessions that exist (indices of TmuxUniverse)
    procs,        \* the processes that run (indices of ProcUniverse)
    \* ---- Detect ----
    dpc,          \* position of the Detect call: "idle", "scan", "done"
    sessions,     \* Detect's local sessions slice
    tmuxPIDs,     \* Detect's local tmuxPIDs set
    asked,        \* names HasClaudeProcess was called for
    seenTable,    \* what GetProcessTable observed: [taken, ok, procs]
    seenScan,     \* what the ps of DetectTerminalSessions observed: [ok, procs]
    churn,        \* process starts and exits during the Detect call
    ret,          \* what Detect returned: [sessions, err]
    \* ---- the dashboard (Bubble Tea program of internal/app) ----
    model,        \* the Model value m held by the running program
    cmds,         \* bag of the tea.Cmd functions running in their goroutines
    quit,         \* tea.Quit was returned: the program has left its loop
    run,          \* position of Run(): in the program, in tmux attach-session, returned
    passes,       \* the discovery passes by order of start: started, in flight, shown
    \* ---- one Detect call seen as its external tool invocations ----
    ppc,          \* position of the call in Detect's control flow
    inv,          \* the tool invocation in progress
    rawLeft,      \* the raw sessions the listing printed, still to be visited
    rowsLeft,     \* the terminal claude rows of the scan, still to be resolved
    hangs,        \* tool invocations that hung so far
    \* ---- calls of the pure functions ----
    fnIn,         \* the function called and its arguments
    fnOut,        \* [done, val]: its result once it has returned
    bfsQueue,     \* hasClaudeDescendant: the BFS queue
    bfsVisited,   \* hasClaudeDescendant: the visited set
    taken,        \* hasClaudeDescendant: the ids dequeued so far, and whether expanded
    disk          \* the configuration file as Save left it

statusVars == <<stIn, stOut>>
cwdVars == <<cwdCache, cwdCacheMu, cpc, creq, lsofCalls, lookups, lastDone>>
hostVars == <<tmuxMode, tmuxSess, procs>>
detectVars == <<dpc, sessions, tmuxPIDs, asked, seenTable, seenScan, churn, ret>>
uiVars == <<model, cmds, quit, run, passes>>
pollVars == <<ppc, inv, rawLeft, rowsLeft, hangs>>
fnVars == <<fnIn, fnOut, bfsQueue, bfsVisited, taken, disk>>
extVars == <<uiVars, pollVars, fnVars>>
coreVars == <<now, statusVars, cwdVars, hostVars, detectVars>>
vars == <<now, stIn, stOut, cwdCache, cwdCacheMu, cpc, creq, lsofCalls, lookups, lastDone,
          tmuxMode, tmuxSess, procs,
          dpc, sessions, tmuxPIDs, asked, seenTable, seenScan, churn, ret, extVars>>

----------------------------------------------------------------------------
(* strings *)

MinOf(S) == CHOOSE x \in S : \A y \in S : x <= y
MaxOf(S) == CHOOSE x \in S : \A y \in S : x >= y

UpperAlpha == <<"A","B","C","D","E","F","G","H","I","J","K","L","M",
                "N","O","P","Q","R","S","T","U","V","W","X","Y","Z">>
LowerAlpha == <<"a","b","c","d","e","f","g","h","i","j","k","l","m",
                "n","o","p","q","r","s","t","u","v","w","x","y","z">>

LowerChar(c) ==
    IF \E i \in 1..26 : UpperAlpha[i] = c
    THEN LowerAlpha[CHOOSE i \in 1..26 : UpperAlpha[i] = c]
    ELSE c

ToLower(s) == [i \in 1..Len(s) |-> LowerChar(s[i])]

HasPrefix(s, p) == Len(p) <= Len(s) /\ SubSeq(s, 1, Len(p)) = p

HasSuffix(s, p) == Len(p) <= Len(s) /\ SubSeq(s, Len(s) - Len(p) + 1, Len(s)) = p

Contains(s, sub) ==
    \E i \in 1..(Len(s) - Len(sub) + 1) : SubSeq(s, i, i + Len(sub) - 1) = sub

TrimPrefix(s, p) == IF HasPrefix(s, p) THEN SubSeq(s, Len(p) + 1, Len(s)) ELSE s

IsSpace(c) == c \in {" ", "\t", "\n", "\r"}

TrimSpace(s) ==
    LET keep == {i \in 1..Len(s) : ~IsSpace(s[i])}
    IN  IF keep = {} THEN <<>> ELSE SubSeq(s, MinOf(keep), MaxOf(keep))

TrimRight(s, c) ==
    LET keep == {i \in 1..Len(s) : s[i] # c}
    IN  IF keep = {} THEN <<>> ELSE SubSeq(s, 1, MaxOf(keep))

RECURSIVE Split(_, _)
Split(s, c) ==
    LET at == {i \in 1..Len(s) : s[i] = c}
    IN  IF at = {} THEN <<s>>
        ELSE <<SubSeq(s, 1, MinOf(at) - 1)>>
                 \o Split(SubSeq(s, MinOf(at) + 1, Len(s)), c)

RECURSIVE Join(_, _)
Join(parts, sep) ==
    IF Len(parts) = 0 THEN <<>>
    ELSE IF Len(parts) = 1 THEN parts[1]
    ELSE parts[1] \o sep \o Join(Tail(parts), sep)


\* strings.Fields: the maximal runs of non-space characters
RECURSIVE Fields(_)
Fields(s) ==
    LET start == {i \in 1..Len(s) : ~IsSpace(s[i])}
    IN  IF start = {} THEN <<>>
        ELSE LET b == MinOf(start)
                 stop == {i \in b..Len(s) : IsSpace(s[i])}
                 e == IF stop = {} THEN Len(s) + 1 ELSE MinOf(stop)
             IN  <<SubSeq(s, b, e - 1)>> \o Fields(SubSeq(s, e, Len(s)))

Digits == <<"0","1","2","3","4","5","6","7","8","9">>

IsDigit(c) == \E d \in 1..10 : Digits[d] = c

DigitVal(c) == (CHOOSE d \in 1..10 : Digits[d] = c) - 1

RECURSIVE DigitsVal(_, _)
DigitsVal(s, acc) ==
    IF s = <<>> THEN acc ELSE DigitsVal(Tail(s), acc * 10 + DigitVal(s[1]))

\* strconv.ParseInt(s, 10, 64) and strconv.Atoi(s): an optional sign, then
\* one or more decimal digits
ParseInt(s) ==
    LET signed == s # <<>> /\ s[1] \in {"-", "+"}
        body == IF signed THEN Tail(s) ELSE s
    IN  IF body = <<>> \/ \E i \in 1..Len(body) : ~IsDigit(body[i])
        THEN [ok |-> FALSE, val |-> 0]
        ELSE [ok |-> TRUE,
              val |-> IF signed /\ s[1] = "-" THEN 0 - DigitsVal(body, 0)
                      ELSE DigitsVal(body, 0)]

----------------------------------------------------------------------------
(* Status *)

StatusActive == "active"
StatusIdle == "idle"
StatusWaiting == "waiting"
StatusUnknown == "unknown"
StatusTerminal == "terminal"

\* time.Time{}: a stand-in far before every Unix timestamp of the model
ZeroTime == 0 - 1000000

IsZero(t) == t = ZeroTime

Since(t) == now - t

idleThreshold == 2

historyLines == 20

\* strings.Split(content, "\n") followed by the backward scan of the last
\* historyLines lines (i is the 1-based index of the line under inspection)
endsWithQuestion(line) == HasSuffix(line, <<"?">>)

hasConfirmPattern(line) ==
    \/ Contains(line, <<"(","y","/","n",")">>)
    \/ Contains(line, <<"(","Y","/","n",")">>)
    \/ Contains(line, <<"(","y","/","N",")">>)
    \/ Contains(line, <<"Y","/","n">>)
    \/ Contains(line, <<"y","/","N">>)

\* the prompt glyph U+276F, one element of a string
PromptGlyph == "U+276F"

isPromptLine(line) ==
    \/ HasPrefix(line, <<">">>)
    \/ Contains(line, <<PromptGlyph>>)
    \/ HasSuffix(line, <<"$">>)

\* mutant of scanPane: the scan is not limited to the last historyLines lines
RECURSIVE scanPaneWholePane(_, _, _)
scanPaneWholePane(lines, i, hasPrompt) ==
    IF i < 1
    THEN StatusIdle
    ELSE LET line == TrimSpace(lines[i])
         IN  IF line = <<>> THEN scanPaneWholePane(lines, i - 1, hasPrompt)
             ELSE IF endsWithQuestion(line) \/ hasConfirmPattern(line)
                  THEN StatusWaiting
                  ELSE scanPaneWholePane(lines, i - 1, hasPrompt \/ isPromptLine(line))

\* mutant of scanPane: without a prompt line the status is left unknown
RECURSIVE scanPaneUnknownDefault(_, _, _)
scanPaneUnknownDefault(lines, i, hasPrompt) ==
    IF i < 1 \/ i < Len(lines) - historyLines + 1
    THEN IF hasPrompt THEN StatusIdle ELSE StatusUnknown
    ELSE LET line == TrimSpace(lines[i])
         IN  IF line = <<>> THEN scanPaneUnknownDefault(lines, i - 1, hasPrompt)
             ELSE IF endsWithQuestion(line) \/ hasConfirmPattern(line)
                  THEN StatusWaiting
                  ELSE scanPaneUnknownDefault(lines, i - 1, hasPrompt \/ isPromptLine(line))

RECURSIVE scanPane(_, _, _)
scanPane(lines, i, hasPrompt) ==
    IF i < 1 \/ i < Len(lines) - historyLines + 1
    THEN IF hasPrompt THEN StatusIdle ELSE StatusIdle
    ELSE LET line == TrimSpace(lines[i])
         IN  IF line = <<>> THEN scanPane(lines, i - 1, hasPrompt)
             ELSE IF endsWithQuestion(line) \/ hasConfirmPattern(line)
                  THEN StatusWaiting
                  ELSE scanPane(lines, i - 1, hasPrompt \/ isPromptLine(line))

\* mutant of isFresh: the recency window is one second short
isFreshShortWindow(lastActivity) ==
    ~IsZero(lastActivity) /\ Since(lastActivity) < idleThreshold - 1

isFresh(lastActivity) == ~IsZero(lastActivity) /\ Since(lastActivity) < idleThreshold

\* detectStatus(name, lastActivity); capture is what CapturePaneContent
\* returns for the session when it is asked.  The result records the status
\* and whether CapturePaneContent was invoked.
detectStatus(lastActivity, capture) ==
    IF isFresh(lastActivity)
    THEN [status |-> StatusActive, captured |-> FALSE]
    ELSE IF capture.err
         THEN [status |-> StatusIdle, captured |-> TRUE]
         ELSE LET lines == Split(capture.content, "\n")
              IN  [status |-> scanPane(lines, Len(lines), FALSE), captured |-> TRUE]

----------------------------------------------------------------------------
(* inputs of the status classifier *)

T0 == 1000          \* poll time of the classifier runs

MaxTail == 2        \* most recent pane lines enumerated freely

LnConfirm == <<"G","o","?"," ","(","y","/","n",")">>
LnQuestion == <<" ","o","k","?"," "," ">>
LnBareYn == <<"[","Y","/","n","]"," ","x">>
LnMidQuestion == <<"a","?","b"," ","$","H">>
LnDollar == <<"u",":","~","$">>
LnGlyph == <<PromptGlyph," ","x">>
LnBlank == <<" "," ">>

LineKinds == {LnConfirm, LnQuestion, LnBareYn, LnMidQuestion, LnDollar, LnGlyph, LnBlank}

PadChoices == {0, historyLines - 2, historyLines - 1}

RECURSIVE SeqsUpTo(_, _)
SeqsUpTo(S, n) ==
    IF n = 0 THEN {<<>>}
    ELSE LET shorter == SeqsUpTo(S, n - 1)
         IN  shorter \cup {Append(q, x) : q \in {r \in shorter : Len(r) = n - 1}, x \in S}

RECURSIVE Unlines(_)
Unlines(ls) == IF ls = <<>> THEN <<>> ELSE ls[1] \o <<"\n">> \o Unlines(Tail(ls))

\* a pane: one old line, pad plain lines, then the most recent lines
PaneText(head, pad, tail) ==
    Unlines(<<head>> \o [i \in 1..pad |-> <<"o","k">>] \o tail)

Captures ==
    {[err |-> TRUE, content |-> <<>>], [err |-> FALSE, content |-> <<>>]}
    \cup {[err |-> FALSE, content |-> PaneText(h, p, t)] :
             h \in LineKinds, p \in PadChoices, t \in SeqsUpTo(LineKinds, MaxTail)}

Activities == {ZeroTime, 0, T0 - 10, T0 - idleThreshold, T0 - 1, T0}

NoOut == [status |-> "none", captured |-> FALSE]

----------------------------------------------------------------------------
(* getProcessCWD *)

cwdCacheTTL == 10

EmptyMap == [k \in {} |-> {}]

MapPut(m, k, v) == [x \in DOMAIN m \cup {k} |-> IF x = k THEN v ELSE m[x]]

\* line 171: entry, ok := cwdCache[pid]; ok && time.Now().Before(entry.expires)
\* mutant of cacheHit: an entry is served however old it is
cacheHitIgnoringExpiry(cache, pid) == pid \in DOMAIN cache

cacheHit(cache, pid) == pid \in DOMAIN cache /\ now < cache[pid].expires

\* lines 179-187: the first output line starting with "n/" without its "n"
RECURSIVE firstPathLine(_)
firstPathLine(lines) ==
    IF lines = <<>> THEN <<>>
    ELSE IF HasPrefix(lines[1], <<"n","/">>) THEN Tail(lines[1])
    ELSE firstPathLine(Tail(lines))

parseLsof(out) == IF out.err THEN <<>> ELSE firstPathLine(Split(out.text, "\n"))

\* line 190: cwdCacheEntry{path: result, expires: time.Now().Add(cwdCacheTTL)}
newCacheEntry(result) == [path |-> result, expires |-> now + cwdCacheTTL]

Callers == {"c1", "c2"}

NoReq == [pid |-> <<>>, checkedAt |-> 0, prev |-> <<>>, result |-> <<>>]

CwdQuiet ==
    /\ cwdCache = EmptyMap
    /\ cwdCacheMu = "free"
    /\ cpc = [c \in Callers |-> "idle"]
    /\ creq = [c \in Callers |-> NoReq]
    /\ lsofCalls = EmptyMap
    /\ lookups = 0
    /\ lastDone = EmptyMap

----------------------------------------------------------------------------
(* tmux output parsing *)

Claude == <<"c","l","a","u","d","e">>

SessionPrefix == <<"c","d","-">>

\* an absent time.Time is ZeroTime; time.Unix(ts, 0) is ts
parseUnixTimestamp(s) ==
    LET r == ParseInt(TrimSpace(s)) IN IF r.ok THEN r.val ELSE ZeroTime

Atoi(s) == LET r == ParseInt(s) IN IF r.ok THEN r.val ELSE 0

\* mutant of skipsLine: a seventh field is asked for
skipsLineUnderSeven(line, parts) == line = <<>> \/ Len(parts) < 7

\* if line == "" { continue } ... if len(parts) < 6 { continue }
skipsLine(line, parts) == line = <<>> \/ Len(parts) < 6

\* mutant of attachedOf: everything but "0" counts as attached
attachedUnlessZero(field) == field # <<"0">>

\* attached := parts[2] == "1"
attachedOf(field) == field = <<"1">>

RECURSIVE parseLines(_)
parseLines(lines) ==
    IF lines = <<>> THEN <<>>
    ELSE LET line == TrimSpace(lines[1])
             parts == Split(line, "|")
         IN  IF skipsLine(line, parts)
             THEN parseLines(Tail(lines))
             ELSE <<[Name |-> parts[1],
                     Created |-> parseUnixTimestamp(parts[2]),
                     Attached |-> attachedOf(parts[3]),
                     Windows |-> Atoi(parts[4]),
                     Activity |-> parseUnixTimestamp(parts[5]),
                     Path |-> parts[6]]>> \o parseLines(Tail(lines))

ParseSessions(output) ==
    IF output = <<>> THEN <<>> ELSE parseLines(Split(output, "\n"))

----------------------------------------------------------------------------
(* process table and descendant matching *)

\* GetProcessTable: out is the result of ps -eo pid,ppid,%cpu,%mem,args.
\* The table is kept as the sequence of its entries in row order (pids are
\* unique in ps output); Go iterates the map in an unspecified order, which
\* only permutes the children lists built from it.
RECURSIVE tableRows(_)
tableRows(lines) ==
    IF lines = <<>> THEN <<>>
    ELSE LET fields == Fields(lines[1])
         IN  IF Len(fields) < 5 THEN tableRows(Tail(lines))
             ELSE <<[PID |-> fields[1], PPID |-> fields[2],
                     Args |-> Join(SubSeq(fields, 5, Len(fields)), <<" ">>)]>>
                      \o tableRows(Tail(lines))

GetProcessTable(out) ==
    IF out.err THEN <<>> ELSE tableRows(Tail(Split(out.text, "\n")))

\* m[e.PPID] = append(m[e.PPID], ProcEntry{PID: e.PID, Args: e.Args})
RECURSIVE BuildProcChildren(_)
BuildProcChildren(entries) ==
    IF entries = <<>> THEN EmptyMap
    ELSE LET e == entries[Len(entries)]
             m == BuildProcChildren(SubSeq(entries, 1, Len(entries) - 1))
             old == IF e.PPID \in DOMAIN m THEN m[e.PPID] ELSE <<>>
         IN  MapPut(m, e.PPID, Append(old, [PID |-> e.PID, Args |-> e.Args]))

childrenOf(procChildren, pid) ==
    IF pid \in DOMAIN procChildren THEN procChildren[pid] ELSE <<>>

\* the BFS loop of hasClaudeDescendant; procChildren is never nil when
\* called from Detect, so the ps fallback of lines 452-470 is not taken
RECURSIVE bfs(_, _, _)
bfs(queue, visited, procChildren) ==
    IF queue = <<>> THEN FALSE
    ELSE LET current == Head(queue)
             kids == childrenOf(procChildren, current)
         IN  IF current \in visited THEN bfs(Tail(queue), visited, procChildren)
             ELSE IF \E i \in 1..Len(kids) : Contains(ToLower(kids[i].Args), Claude)
                  THEN TRUE
                  ELSE bfs(Tail(queue) \o [i \in 1..Len(kids) |-> kids[i].PID],
                           visited \cup {current}, procChildren)

hasClaudeDescendant(rootPID, procChildren) == bfs(<<rootPID>>, {}, procChildren)

----------------------------------------------------------------------------
(* the host: what tmux, ps and lsof print *)

S(n) == <<n>>

P10 == <<"1","0">>
P20 == <<"2","0">>
P30 == <<"3","0">>
P40 == <<"4","0">>
P50 == <<"5","0">>
P60 == <<"6","0">>
P70 == <<"7","0">>
Pts1 == <<"p","t","s","/","1">>
Pts2 == <<"p","t","s","/","2">>
Pts3 == <<"p","t","s","/","3">>

\* the processes that may run: pid, parent pid, controlling tty, argv
ProcUniverse == <<
    \* the shell of a tmux pane
    [pid |-> P10, ppid |-> S("1"), tty |-> Pts1, argv |-> <<<<"-","z","s","h">>>>],
    \* claude started from that shell
    [pid |-> P20, ppid |-> P10, tty |-> Pts1, argv |-> <<Claude>>],
    \* claude started as the command of a tmux pane
    [pid |-> P30, ppid |-> S("1"), tty |-> Pts2,
     argv |-> <<<<"/","b","/","c","l","a","u","d","e">>, <<"-","c">>>>],
    \* claude in a terminal tab
    [pid |-> P40, ppid |-> S("1"), tty |-> Pts3, argv |-> <<Claude>>],
    \* claude without a terminal
    [pid |-> P50, ppid |-> S("1"), tty |-> <<"?","?">>, argv |-> <<Claude>>],
    \* a helper below the pane shell whose command line mentions CLAUDE
    [pid |-> P60, ppid |-> P10, tty |-> Pts1,
     argv |-> <<<<"/","b","/","C","L","A","U","D","E","-","d">>, <<"-","x">>>>],
    \* a row without a command
    [pid |-> P70, ppid |-> S("1"), tty |-> <<"?">>, argv |-> <<>>] >>

ProcIds == 1..Len(ProcUniverse)

RECURSIVE ProcsInOrder(_, _)
ProcsInOrder(ps, i) ==
    IF i > Len(ProcUniverse) THEN <<>>
    ELSE (IF i \in ps THEN <<ProcUniverse[i]>> ELSE <<>>) \o ProcsInOrder(ps, i + 1)

PsTableHeader == <<" ","P","I","D"," ","P","P","I","D"," ","%","C","P","U"," ","%","M","E","M"," ","C","O","M","M","A","N","D">>
PsScanHeader == <<" ","P","I","D"," ","P","P","I","D"," ","T","T"," ","C","O","M","M","A","N","D">>

RowText(cols) == <<" ">> \o Join(cols, <<" "," ">>)

\* ps -eo pid,ppid,%cpu,%mem,args over the processes ps
PsTableOut(ok, ps) ==
    IF ~ok THEN [err |-> TRUE, text |-> <<>>]
    ELSE LET rows == ProcsInOrder(ps, 1)
         IN  [err |-> FALSE,
              text |-> Unlines(<<PsTableHeader>> \o
                         [i \in 1..Len(rows) |->
                            RowText(<<rows[i].pid, rows[i].ppid, <<"0",".","0">>, <<"0",".","1">>>>
                                    \o rows[i].argv)])]

\* ps -eo pid,ppid,tty,args over the processes ps
PsScanOut(ok, ps) ==
    IF ~ok THEN [err |-> TRUE, text |-> <<>>]
    ELSE LET rows == ProcsInOrder(ps, 1)
         IN  [err |-> FALSE,
              text |-> Unlines(<<PsScanHeader>> \o
                         [i \in 1..Len(rows) |->
                            RowText(<<rows[i].pid, rows[i].ppid, rows[i].tty>> \o rows[i].argv)])]

LsofFailed == [err |-> TRUE, text |-> <<>>]
LsofPath == [err |-> FALSE,
             text |-> Unlines(<<<<"p","4">>, <<"f","c","w","d">>, <<"n","/","w","/","p","/">>>>)]
LsofNoPath == [err |-> FALSE, text |-> Unlines(<<<<"p","4">>, <<"n","o","n","e">>>>)]

LsofOutputs == {LsofFailed, LsofPath, LsofNoPath}

\* lsof -a -p pid -d cwd -Fn on the host of the Detect runs
LsofOf(pid) ==
    IF pid = P40 THEN LsofPath ELSE IF pid = P20 THEN LsofFailed ELSE LsofNoPath

Failed == [err |-> TRUE, text |-> <<>>]
Printed(lines) == [err |-> FALSE, text |-> Unlines(lines)]

TsFresh == <<"9","9","9">>
TsStale == <<"9","0","0">>

\* the tmux sessions that may exist: the six fields of the list-sessions
\* line, and what list-panes (pane_pid, pane_current_command) and
\* capture-pane print for the session
TmuxUniverse == <<
    \* created by the dashboard, claude runs below the pane's shell
    [fields |-> <<<<"c","d","-","a">>, S("5"), S("0"), S("1"), TsStale, <<"/","w","/","a">>>>,
     panePid |-> Printed(<<P10>>), paneCmd |-> Printed(<<<<"z","s","h">>>>),
     capture |-> Printed(<<<<"G","o","?"," ","(","y","/","n",")">>, <<>>>>)],
    \* created by the dashboard, claude is the pane's process
    [fields |-> <<<<"c","d","-","b">>, S("5"), S("1"), S("2"), TsFresh, <<"/","w","/","b">>>>,
     panePid |-> Printed(<<P30>>), paneCmd |-> Printed(<<Claude>>),
     capture |-> Printed(<<<<">"," ">>>>)],
    \* named after the program, tmux answers nothing about its panes
    [fields |-> <<<<"m","y","C","l","a","u","d","e">>, S("x"), S("0"), S("x"), <<>>, <<>>>>,
     panePid |-> Failed, paneCmd |-> Failed, capture |-> Failed],
    \* a plain shell session
    [fields |-> <<<<"w","o","r","k">>, S("5"), S("0"), S("1"), TsStale, <<"/","w","/","k","/">>>>,
     panePid |-> Printed(<<P10>>), paneCmd |-> Printed(<<<<"z","s","h">>>>),
     capture |-> Printed(<<<<"u",":","~","$">>>>)],
    \* a session grouped with cd-b: it shows the same pane
    [fields |-> <<<<"d","e","v">>, S("5"), S("0"), S("2"), TsStale, <<"/">>>>,
     panePid |-> Printed(<<P30>>), paneCmd |-> Printed(<<<<"C","l","a","u","d","e">>>>),
     capture |-> Printed(<<<<"o","k">>>>)],
    \* a session without the program whose pane lookups fail
    [fields |-> <<<<"m","i","s","c">>, S("5"), S("0"), S("1"), TsFresh, <<"/","w">>>>,
     panePid |-> Failed, paneCmd |-> Failed, capture |-> Failed],
    \* a line cut short
    [fields |-> <<<<"c","d","-","c">>, S("5"), S("0"), S("1"), TsFresh>>,
     panePid |-> Failed, paneCmd |-> Failed, capture |-> Failed] >>

TmuxIds == 1..Len(TmuxUniverse)

RECURSIVE TmuxInOrder(_, _)
TmuxInOrder(ss, i) ==
    IF i > Len(TmuxUniverse) THEN <<>>
    ELSE (IF i \in ss THEN <<TmuxUniverse[i]>> ELSE <<>>) \o TmuxInOrder(ss, i + 1)

\* the session of the server with this name, if any
PaneOf(name) ==
    LET ids == {i \in tmuxSess : TmuxUniverse[i].fields[1] = name}
    IN  IF tmuxMode # "up" \/ ids = {}
        THEN [panePid |-> Failed, paneCmd |-> Failed, capture |-> Failed]
        ELSE TmuxUniverse[CHOOSE i \in ids : TRUE]

\* tmux list-sessions -F SessionFormat: the error of cmd.CombinedOutput
\* (its text, empty for nil) and the combined output
ListSessionsCmd ==
    IF tmuxMode = "error"
    THEN [errText |-> <<"s","i","g","n","a","l",":"," ","k","i","l","l","e","d">>, out |-> <<>>]
    ELSE IF tmuxMode = "noserver"
    THEN [errText |-> <<"e","x","i","t"," ","s","t","a","t","u","s"," ","1">>,
          out |-> <<"n","o"," ","s","e","r","v","e","r"," ","r","u","n","n","i","n","g","\n">>]
    ELSE LET ss == TmuxInOrder(tmuxSess, 1)
         IN  [errText |-> <<>>,
              out |-> Unlines([i \in 1..Len(ss) |-> Join(ss[i].fields, <<"|">>)])]

----------------------------------------------------------------------------
(* tmux client *)

\* Client.ListSessions: (output, error)
ListSessions ==
    LET c == ListSessionsCmd
    IN  IF c.errText # <<>>
        THEN IF \/ Contains(c.out, <<"n","o"," ","s","e","r","v","e","r"," ","r","u","n","n","i","n","g">>)
                \/ Contains(c.out, <<"n","o"," ","c","u","r","r","e","n","t"," ","c","l","i","e","n","t">>)
                \/ Contains(c.errText, <<"e","x","i","t"," ","s","t","a","t","u","s">>)
             THEN [out |-> <<>>, err |-> FALSE]
             ELSE [out |-> <<>>, err |-> TRUE]
        ELSE [out |-> TrimSpace(c.out), err |-> FALSE]

\* Client.GetSessionPID: (pid, error)
GetSessionPID(name) ==
    LET o == PaneOf(name).panePid
        lines == Split(TrimSpace(o.text), "\n")
    IN  IF o.err THEN [pid |-> <<>>, err |-> TRUE]
        ELSE IF Len(lines) > 0 THEN [pid |-> lines[1], err |-> FALSE]
        ELSE [pid |-> <<>>, err |-> TRUE]

\* Client.CapturePaneContent: (content, error)
CapturePaneContent(name) ==
    LET o == PaneOf(name).capture IN [err |-> o.err, content |-> o.text]

\* mutant of HasClaudeProcess: only the pane's current command is looked at
HasClaudeProcessFastPathOnly(name, procChildren) ==
    LET o == PaneOf(name).paneCmd
        lines == Split(TrimSpace(o.text), "\n")
    IN  ~o.err /\ \E i \in 1..Len(lines) : Contains(ToLower(lines[i]), Claude)

\* Client.HasClaudeProcess
HasClaudeProcess(name, procChildren) ==
    LET o == PaneOf(name).paneCmd
        lines == Split(TrimSpace(o.text), "\n")
        pid == GetSessionPID(name)
    IN  IF ~o.err /\ \E i \in 1..Len(lines) : Contains(ToLower(lines[i]), Claude)
        THEN TRUE
        ELSE IF pid.err THEN FALSE
        ELSE hasClaudeDescendant(pid.pid, procChildren)

----------------------------------------------------------------------------
(* Detect *)

buildProcChildren(table) == BuildProcChildren(table)

lastComponent(path) ==
    LET parts == Split(TrimRight(path, "/"), "/") IN parts[Len(parts)]

\* mutant of extractProject: the path is looked at before the prefix
extractProjectPathFirst(name, path) ==
    IF path # <<>> THEN lastComponent(path)
    ELSE IF HasPrefix(name, SessionPrefix) THEN TrimPrefix(name, SessionPrefix)
    ELSE name

extractProject(name, path) ==
    IF HasPrefix(name, SessionPrefix) THEN TrimPrefix(name, SessionPrefix)
    ELSE IF path # <<>> THEN lastComponent(path)
    ELSE name

\* getProcessCWD called by the scan: the cache and the lsof count go in,
\* the path and their new values come out
getProcessCWD(pid, cache, calls) ==
    IF cacheHit(cache, pid)
    THEN [path |-> cache[pid].path, cache |-> cache, calls |-> calls]
    ELSE LET result == parseLsof(LsofOf(pid))
         IN  [path |-> result,
              cache |-> MapPut(cache, pid, newCacheEntry(result)),
              calls |-> MapPut(calls, pid,
                               IF pid \in DOMAIN calls THEN calls[pid] + 1 ELSE 1)]

\* mutant of terminalSession: without a path the project is the tty
terminalSessionProjectFromTty(pid, tty, path) ==
    [Name |-> <<"t","e","r","m","i","n","a","l","/">> \o tty,
     Project |-> IF path # <<>> THEN lastComponent(path) ELSE tty,
     Status |-> StatusTerminal,
     StartedAt |-> ZeroTime, Activity |-> ZeroTime, Attached |-> FALSE,
     PID |-> pid, Path |-> path, Managed |-> FALSE]

terminalSession(pid, tty, path) ==
    [Name |-> <<"t","e","r","m","i","n","a","l","/">> \o tty,
     Project |-> IF path # <<>> THEN lastComponent(path) ELSE <<>>,
     Status |-> StatusTerminal,
     StartedAt |-> ZeroTime, Activity |-> ZeroTime, Attached |-> FALSE,
     PID |-> pid, Path |-> path, Managed |-> FALSE]

baseNameOf(execName) == LET parts == Split(execName, "/") IN parts[Len(parts)]

\* mutant of isTerminalClaude: processes without a tty are kept
isTerminalClaudeAnyTty(fields, pids) ==
    /\ Len(fields) >= 4
    /\ baseNameOf(fields[4]) = Claude
    /\ fields[1] \notin pids

\* mutant of isTerminalClaude: the tmux pane PIDs are not excluded
isTerminalClaudeNoDedup(fields, pids) ==
    /\ Len(fields) >= 4
    /\ baseNameOf(fields[4]) = Claude
    /\ fields[3] \notin {<<"?","?">>, <<"?">>}

\* mutant of isTerminalClaude: any command mentioning claude is taken
isTerminalClaudeSubstring(fields, pids) ==
    /\ Len(fields) >= 4
    /\ Contains(ToLower(fields[4]), Claude)
    /\ fields[1] \notin pids
    /\ fields[3] \notin {<<"?","?">>, <<"?">>}

\* the continue conditions of the row loop of DetectTerminalSessions
isTerminalClaude(fields, pids) ==
    /\ Len(fields) >= 4
    /\ baseNameOf(fields[4]) = Claude
    /\ fields[1] \notin pids
    /\ fields[3] \notin {<<"?","?">>, <<"?">>}

RECURSIVE scanRows(_, _, _)
scanRows(lines, pids, acc) ==
    IF lines = <<>> THEN acc
    ELSE LET fields == Fields(lines[1])
         IN  IF ~isTerminalClaude(fields, pids) THEN scanRows(Tail(lines), pids, acc)
             ELSE LET cw == getProcessCWD(fields[1], acc.cache, acc.calls)
                  IN  scanRows(Tail(lines), pids,
                         [sessions |-> Append(acc.sessions,
                                         terminalSession(fields[1], fields[3], cw.path)),
                          cache |-> cw.cache, calls |-> cw.calls])

\* DetectTerminalSessions(tmuxPIDs); out is the result of
\* ps -eo pid,ppid,tty,args
DetectTerminalSessions(pids, out, cache, calls) ==
    IF out.err THEN [sessions |-> <<>>, cache |-> cache, calls |-> calls]
    ELSE scanRows(Tail(Split(out.text, "\n")), pids,
                  [sessions |-> <<>>, cache |-> cache, calls |-> calls])

isNameMatch(name) ==
    HasPrefix(name, SessionPrefix) \/ Contains(ToLower(name), Claude)

managedSession(raw) ==
    LET pid == GetSessionPID(raw.Name)
    IN  [Name |-> raw.Name,
         Project |-> extractProject(raw.Name, raw.Path),
         Status |-> detectStatus(raw.Activity, CapturePaneContent(raw.Name)).status,
         StartedAt |-> raw.Created, Activity |-> raw.Activity, Attached |-> raw.Attached,
         PID |-> IF pid.err THEN <<>> ELSE pid.pid,
         Path |-> raw.Path, Managed |-> TRUE]

\* the loop over rawSessions: the sessions kept, and the names
\* HasClaudeProcess was called for
RECURSIVE detectLoop(_, _, _)
detectLoop(raws, procChildren, acc) ==
    IF raws = <<>> THEN acc
    ELSE LET raw == Head(raws)
             accAsked == IF isNameMatch(raw.Name) THEN acc
                         ELSE [acc EXCEPT !.asked = @ \cup {raw.Name}]
         IN  IF ~isNameMatch(raw.Name) /\ ~HasClaudeProcess(raw.Name, procChildren)
             THEN detectLoop(Tail(raws), procChildren, accAsked)
             ELSE detectLoop(Tail(raws), procChildren,
                             [accAsked EXCEPT !.sessions = Append(@, managedSession(raw))])

\* mutant of collectPIDs: the PID of every session is collected
collectPIDsWithEmpty(ss) == {ss[i].PID : i \in 1..Len(ss)}

\* lines 86-91: tmuxPIDs, the PIDs of the sessions that have one
collectPIDs(ss) == {ss[i].PID : i \in {j \in 1..Len(ss) : ss[j].PID # <<>>}}

\* mutant of detectReturn: a failed listing is reported to the caller
detectReturnListError(all, listErr) == [sessions |-> all, err |-> listErr]

\* the return statements of Detect and detectTerminalOnly: the error is nil
detectReturn(all, listErr) == [sessions |-> all, err |-> FALSE]

NoRet == [sessions |-> <<>>, err |-> FALSE]

HostQuiet ==
    /\ tmuxMode = "noserver"
    /\ tmuxSess = {}
    /\ procs = {}

DetectQuiet ==
    /\ dpc = "idle"
    /\ sessions = <<>>
    /\ tmuxPIDs = {}
    /\ asked = {}
    /\ seenTable = [taken |-> FALSE, ok |-> FALSE, procs |-> {}]
    /\ seenScan = [ok |-> FALSE, procs |-> {}]
    /\ churn = 0
    /\ ret = NoRet

----------------------------------------------------------------------------
(* the dashboard's Model as New() builds it *)

ViewDashboard == "dashboard"
ViewLogs == "logs"
ViewDetail == "detail"
ViewCreate == "create"
ViewHelp == "help"

\* a nil error
NoErr == "nil"

\* ui.NewCreateForm: what the model keeps of the form is its error line
NewCreateForm == [Err |-> <<>>]

\* New(): every field but manager, cfg, view and filterText is the zero value.
\* The fields that only feed View are left out: width, height, scrollOffset
\* and logView. Of confirmMsg the model keeps the session name it was
\* formatted with.
NewModel ==
    [sessions |-> <<>>, view |-> ViewDashboard, cursor |-> 0, err |-> NoErr,
     confirming |-> FALSE, confirmMsg |-> <<>>, createForm |-> NewCreateForm,
     filterText |-> <<>>, filtering |-> FALSE, filterQuery |-> <<>>,
     attachTarget |-> <<>>]

\* Run() is inside p.Run(): the program has the terminal
InTui == [at |-> "tui", target |-> <<>>, err |-> NoErr]

\* no discovery pass is followed
NoPasses == [started |-> 0, flying |-> {}, shown |-> 0, newest |-> 0]

UiQuiet ==
    /\ model = NewModel
    /\ cmds = EmptyBag
    /\ quit = TRUE
    /\ run = InTui
    /\ passes = NoPasses

NoInv == [tool |-> "none", state |-> "none", elapsed |-> 0]

PollQuiet ==
    /\ ppc = "off"
    /\ inv = NoInv
    /\ rawLeft = <<>>
    /\ rowsLeft = 0
    /\ hangs = 0

NotReturned == [done |-> FALSE]

\* no config.yaml in the configuration directory
NoFile ==
    [exists |-> FALSE, refresh_interval |-> <<>>, session_prefix |-> <<>>,
     default_dir |-> <<>>, log_history |-> <<>>]

FnQuiet ==
    /\ fnIn = [fn |-> "none"]
    /\ fnOut = NotReturned
    /\ bfsQueue = <<>>
    /\ bfsVisited = {}
    /\ taken = <<>>
    /\ disk = NoFile

ExtQuiet == UiQuiet /\ PollQuiet /\ FnQuiet

CoreQuiet ==
    /\ now = 0
    /\ stIn = [activity |-> ZeroTime, capture |-> [err |-> TRUE, content |-> <<>>]]
    /\ stOut = NoOut
    /\ CwdQuiet
    /\ HostQuiet
    /\ DetectQuiet

----------------------------------------------------------------------------
(* specification of the status classifier: one detectStatus call per input *)

InitStatus ==
    /\ now = T0
    /\ stIn \in [activity : Activities, capture : Captures]
    /\ stOut = NoOut
    /\ CwdQuiet
    /\ HostQuiet
    /\ DetectQuiet
    /\ ExtQuiet

DetectStatusCall ==
    /\ stOut = NoOut
    /\ stOut' = detectStatus(stIn.activity, stIn.capture)
    /\ UNCHANGED <<now, stIn>>
    /\ UNCHANGED <<cwdVars, hostVars, detectVars>>
    /\ UNCHANGED extVars

NextStatus == DetectStatusCall

SpecStatus == InitStatus /\ [][NextStatus]_vars

----------------------------------------------------------------------------
(* properties of the status classifier *)

StatusCallDone == stOut # NoOut

\* C7: a non-zero last-activity timestamp less than 2 seconds before the poll
\* time yields Active without the pane being captured; a zero timestamp never
\* takes this rule (the pane is consulted and the result is not Active).
C7_FreshIsActiveWithoutCapture ==
    StatusCallDone =>
        /\ (stIn.activity # ZeroTime /\ stIn.activity <= now /\ now - stIn.activity < 2)
              => (stOut.status = StatusActive /\ ~stOut.captured)
        /\ stIn.activity = ZeroTime
              => (stOut.captured /\ stOut.status # StatusActive)

C7_Witness ==
    /\ StatusCallDone
    /\ stIn.activity = now - 1
    /\ ~stIn.capture.err
    /\ stOut.status = StatusActive

StaleActivity == stIn.activity = ZeroTime \/ now - stIn.activity >= 2

\* the lines of the pane text a reader of the last 20 lines sees
InspectedLines ==
    LET lines == Split(stIn.capture.content, "\n")
    IN  {TrimSpace(lines[i]) : i \in {j \in 1..Len(lines) : j > Len(lines) - 20}}

IsWaitingLine(line) ==
    /\ line # <<>>
    /\ \/ line[Len(line)] = "?"
       \/ \E pat \in {<<"(","y","/","n",")">>, <<"(","Y","/","n",")">>,
                      <<"(","y","/","N",")">>, <<"Y","/","n">>, <<"y","/","N">>} :
             Contains(line, pat)

----------------------------------------------------------------------------
(* specification of the cached resolver: callers of getProcessCWD, the clock *)

MaxTime == 15       \* the clock stops here
TickStep == 5       \* seconds between two observations of the clock
MaxLookups == 3     \* getProcessCWD calls per behaviour

CwdPids == {<<"4","0">>, <<"4","1">>}

InitCwd ==
    /\ now = 0
    /\ stIn = [activity |-> ZeroTime, capture |-> [err |-> TRUE, content |-> <<>>]]
    /\ stOut = NoOut
    /\ CwdQuiet
    /\ HostQuiet
    /\ DetectQuiet
    /\ ExtQuiet

\* line 170: cwdCacheMu.Lock() of a new call getProcessCWD(pid)
CwdLock(c, pid) ==
    /\ cpc[c] = "idle"
    /\ lookups < MaxLookups
    /\ cwdCacheMu = "free"
    /\ cwdCacheMu' = c
    /\ cpc' = [cpc EXCEPT ![c] = "check"]
    /\ creq' = [creq EXCEPT ![c] =
                  [NoReq EXCEPT !.pid = pid,
                                !.prev = IF pid \in DOMAIN lastDone THEN lastDone[pid] ELSE <<>>]]
    /\ lookups' = lookups + 1
    /\ UNCHANGED <<now, cwdCache, lsofCalls, lastDone>>
    /\ UNCHANGED <<statusVars, hostVars, detectVars>>
    /\ UNCHANGED extVars

\* lines 171-175: the cache test under the mutex, a hit returns entry.path
CwdCheck(c) ==
    /\ cpc[c] = "check"
    /\ cwdCacheMu = c
    /\ cwdCacheMu' = "free"
    /\ IF cacheHit(cwdCache, creq[c].pid)
       THEN /\ cpc' = [cpc EXCEPT ![c] = "idle"]
            /\ creq' = [creq EXCEPT ![c] = NoReq]
            /\ lastDone' = MapPut(lastDone, creq[c].pid,
                              [at |-> now, invoked |-> FALSE,
                               result |-> cwdCache[creq[c].pid].path])
       ELSE /\ cpc' = [cpc EXCEPT ![c] = "lsof"]
            /\ creq' = [creq EXCEPT ![c].checkedAt = now]
            /\ UNCHANGED lastDone
    /\ UNCHANGED <<now, cwdCache, lsofCalls, lookups>>
    /\ UNCHANGED <<statusVars, hostVars, detectVars>>
    /\ UNCHANGED extVars

\* lines 177-187: lsof runs (no mutex held) and its output is parsed
CwdLsof(c) ==
    /\ cpc[c] = "lsof"
    /\ \E out \in LsofOutputs :
          creq' = [creq EXCEPT ![c].result = parseLsof(out)]
    /\ lsofCalls' = MapPut(lsofCalls, creq[c].pid,
                        IF creq[c].pid \in DOMAIN lsofCalls
                        THEN lsofCalls[creq[c].pid] + 1 ELSE 1)
    /\ cpc' = [cpc EXCEPT ![c] = "relock"]
    /\ UNCHANGED <<now, cwdCache, cwdCacheMu, lookups, lastDone>>
    /\ UNCHANGED <<statusVars, hostVars, detectVars>>
    /\ UNCHANGED extVars

\* mutant of CwdRelock: the entry is stored without taking the mutex again
CwdRelockWithoutLock(c) ==
    /\ cpc[c] = "relock"
    /\ cpc' = [cpc EXCEPT ![c] = "store"]
    /\ UNCHANGED <<now, cwdCache, cwdCacheMu, creq, lsofCalls, lookups, lastDone>>
    /\ UNCHANGED <<statusVars, hostVars, detectVars>>
    /\ UNCHANGED extVars

\* line 189: cwdCacheMu.Lock()
CwdRelock(c) ==
    /\ cpc[c] = "relock"
    /\ cwdCacheMu = "free"
    /\ cwdCacheMu' = c
    /\ cpc' = [cpc EXCEPT ![c] = "store"]
    /\ UNCHANGED <<now, cwdCache, creq, lsofCalls, lookups, lastDone>>
    /\ UNCHANGED <<statusVars, hostVars, detectVars>>
    /\ UNCHANGED extVars

\* lines 190-193: the entry is written, the mutex released, result returned
CwdStore(c) ==
    /\ cpc[c] = "store"
    /\ cwdCacheMu = c
    /\ cwdCache' = MapPut(cwdCache, creq[c].pid, newCacheEntry(creq[c].result))
    /\ cwdCacheMu' = "free"
    /\ cpc' = [cpc EXCEPT ![c] = "idle"]
    /\ lastDone' = MapPut(lastDone, creq[c].pid,
                      [at |-> now, invoked |-> TRUE, result |-> creq[c].result])
    /\ creq' = [creq EXCEPT ![c] = NoReq]
    /\ UNCHANGED <<now, lsofCalls, lookups>>
    /\ UNCHANGED <<statusVars, hostVars, detectVars>>
    /\ UNCHANGED extVars

Tick ==
    /\ now + TickStep <= MaxTime
    /\ now' = now + TickStep
    /\ UNCHANGED <<cwdVars, statusVars, hostVars, detectVars>>
    /\ UNCHANGED extVars

NextCwd ==
    \/ \E c \in Callers, pid \in CwdPids : CwdLock(c, pid)
    \/ \E c \in Callers : CwdCheck(c)
    \/ \E c \in Callers : CwdLsof(c)
    \/ \E c \in Callers : CwdRelock(c)
    \/ \E c \in Callers : CwdStore(c)
    \/ Tick

SpecCwd == InitCwd /\ [][NextCwd]_vars

----------------------------------------------------------------------------
(* properties of the cached resolver *)

OnMissPath(c) == cpc[c] \in {"lsof", "relock", "store"}

\* C10: a lookup that begins after a resolving lookup of the same pid has
\* returned, and tests the cache less than 10 seconds after that return,
\* does not invoke lsof; a lookup served from the cache returns the cached
\* path (the empty path of a failed resolution included) and was made
\* strictly before the entry's expiry, so a lookup at or after the expiry
\* invokes lsof again; a resolving lookup leaves an entry that expires 10
\* seconds after its return.
C10_CwdCacheTTL ==
    /\ \A c \in Callers :
          (OnMissPath(c) /\ creq[c].prev # <<>> /\ creq[c].prev.invoked)
              => creq[c].checkedAt >= creq[c].prev.at + 10
    /\ \A pid \in DOMAIN lastDone :
          /\ pid \in DOMAIN cwdCache
          /\ lastDone[pid].result = cwdCache[pid].path
          /\ ~lastDone[pid].invoked => lastDone[pid].at < cwdCache[pid].expires
          /\ lastDone[pid].invoked => cwdCache[pid].expires = lastDone[pid].at + 10

\* the second lookup of a pid is served the cached empty path of a failed
\* resolution, lsof having run once
C10_Witness ==
    \E pid \in DOMAIN lastDone :
        /\ ~lastDone[pid].invoked
        /\ lastDone[pid].result = <<>>
        /\ lastDone[pid].at > 0
        /\ lsofCalls[pid] = 1
        /\ \A c \in Callers : cpc[c] = "idle"

----------------------------------------------------------------------------
(* specification of a poll: one Detect call on a host, processes starting  *)
(* and exiting between its tmux pass and its terminal scan                 *)

MaxSessions == 2    \* tmux sessions on the host
MaxProcs == 3       \* processes on the host
MaxChurn == 1       \* process starts and exits during the call

\* the cache as an earlier poll may have left it
CacheStates ==
    { EmptyMap,
      MapPut(EmptyMap, P40, [path |-> <<"/","o","l","d">>, expires |-> T0 + 5]),
      MapPut(EmptyMap, P40, [path |-> <<"/","o","l","d">>, expires |-> T0]) }

\* the process of every pane runs, and so does the parent of every process
\* that init (pid 1) did not start
HostConsistent ==
    /\ \A n \in tmuxSess :
          ~TmuxUniverse[n].panePid.err =>
              \E i \in procs : TmuxUniverse[n].panePid = Printed(<<ProcUniverse[i].pid>>)
    /\ \A i \in procs :
          ProcUniverse[i].ppid # S("1") =>
              \E j \in procs : ProcUniverse[j].pid = ProcUniverse[i].ppid

InitDetect ==
    /\ now = T0
    /\ stIn = [activity |-> ZeroTime, capture |-> [err |-> TRUE, content |-> <<>>]]
    /\ stOut = NoOut
    /\ cwdCache \in CacheStates
    /\ cwdCacheMu = "free"
    /\ cpc = [c \in Callers |-> "idle"]
    /\ creq = [c \in Callers |-> NoReq]
    /\ lsofCalls = EmptyMap
    /\ lookups = 0
    /\ lastDone = EmptyMap
    /\ tmuxMode \in {"up", "noserver", "error"}
    /\ tmuxSess \in {ss \in SUBSET TmuxIds :
                       Cardinality(ss) <= MaxSessions /\ (tmuxMode # "up" => ss = {})}
    /\ procs \in {ps \in SUBSET ProcIds : Cardinality(ps) <= MaxProcs}
    /\ HostConsistent
    /\ DetectQuiet
    /\ ExtQuiet

\* lines 39-91: the listing, the process snapshot, the loop over the raw
\* sessions and the collection of their pane PIDs
DetectTmux ==
    /\ dpc = "idle"
    /\ IF ListSessions.err \/ ListSessions.out = <<>>
       THEN /\ sessions' = <<>>
            /\ asked' = {}
            /\ seenTable' = [taken |-> FALSE, ok |-> FALSE, procs |-> {}]
       ELSE \E ok \in BOOLEAN :
              LET procTable == GetProcessTable(PsTableOut(ok, procs))
                  r == detectLoop(ParseSessions(ListSessions.out),
                                  buildProcChildren(procTable),
                                  [sessions |-> <<>>, asked |-> {}])
              IN  /\ sessions' = r.sessions
                  /\ asked' = r.asked
                  /\ seenTable' = [taken |-> TRUE, ok |-> ok, procs |-> procs]
    /\ tmuxPIDs' = collectPIDs(sessions')
    /\ dpc' = "scan"
    /\ UNCHANGED <<now, seenScan, churn, ret>>
    /\ UNCHANGED <<statusVars, cwdVars, hostVars>>
    /\ UNCHANGED extVars

\* a process starts while Detect runs
ProcStart(i) ==
    /\ dpc = "scan"
    /\ churn < MaxChurn
    /\ i \notin procs
    /\ Cardinality(procs) < MaxProcs
    /\ procs' = procs \cup {i}
    /\ churn' = churn + 1
    /\ UNCHANGED <<now, tmuxMode, tmuxSess, dpc, sessions, tmuxPIDs, asked, seenTable, seenScan, ret>>
    /\ UNCHANGED <<statusVars, cwdVars>>
    /\ UNCHANGED extVars

\* a process exits while Detect runs
ProcExit(i) ==
    /\ dpc = "scan"
    /\ churn < MaxChurn
    /\ i \in procs
    /\ procs' = procs \ {i}
    /\ churn' = churn + 1
    /\ UNCHANGED <<now, tmuxMode, tmuxSess, dpc, sessions, tmuxPIDs, asked, seenTable, seenScan, ret>>
    /\ UNCHANGED <<statusVars, cwdVars>>
    /\ UNCHANGED extVars

\* lines 93-97 and 101-104: the terminal scan, the merge and the return
DetectScan ==
    /\ dpc = "scan"
    /\ \E ok \in BOOLEAN :
          LET t == DetectTerminalSessions(tmuxPIDs, PsScanOut(ok, procs), cwdCache, lsofCalls)
          IN  /\ ret' = detectReturn(sessions \o t.sessions, ListSessions.err)
              /\ cwdCache' = t.cache
              /\ lsofCalls' = t.calls
              /\ seenScan' = [ok |-> ok, procs |-> procs]
    /\ dpc' = "done"
    /\ UNCHANGED <<now, sessions, tmuxPIDs, asked, seenTable, churn>>
    /\ UNCHANGED <<statusVars, hostVars, cwdCacheMu, cpc, creq, lookups, lastDone>>
    /\ UNCHANGED extVars

NextDetect ==
    \/ DetectTmux
    \/ \E i \in ProcIds : ProcStart(i)
    \/ \E i \in ProcIds : ProcExit(i)
    \/ DetectScan

Spec == InitDetect /\ [][NextDetect]_vars

----------------------------------------------------------------------------
(* properties of a poll *)

Returned == dpc = "done"

\* Detect took the terminal-only path: the listing failed or was empty
TerminalOnly == ListSessions.err \/ ListSessions.out = <<>>

RetIndexes == 1..Len(ret.sessions)

ManagedAt == {k \in RetIndexes : ret.sessions[k].Managed}
TerminalAt == {k \in RetIndexes : ~ret.sessions[k].Managed}

\* the host's view of a process: its command is the program claude and it
\* has a controlling terminal
RunsClaude(i) ==
    /\ ProcUniverse[i].argv # <<>>
    /\ \/ ProcUniverse[i].argv[1] = <<"c","l","a","u","d","e">>
       \/ HasSuffix(ProcUniverse[i].argv[1], <<"/","c","l","a","u","d","e">>)

HasTty(i) == ProcUniverse[i].tty # <<"?">> /\ ProcUniverse[i].tty # <<"?","?">>

\* the pids of the processes of ps that descend from root
RECURSIVE DescendantsWithin(_, _, _)
DescendantsWithin(found, ps, n) ==
    IF n = 0 THEN found
    ELSE DescendantsWithin(
            found \cup {ProcUniverse[i].pid : i \in {j \in ps : ProcUniverse[j].ppid \in found}},
            ps, n - 1)

DescendantPids(root, ps) == DescendantsWithin({root}, ps, Cardinality(ps)) \ {root}

\* C1: on a host that does not change during the poll, a claude process
\* with a terminal is never represented twice, once by a Managed=true
\* session (its pane PID is the process or an ancestor of it, such as the
\* pane's shell) and once by a Managed=false session carrying its pid.
C1_NeverManagedAndTerminal ==
    (Returned /\ churn = 0 /\ seenScan.ok) =>
        \A i \in procs :
            (RunsClaude(i) /\ HasTty(i)) =>
                ~ /\ \E k \in ManagedAt :
                        /\ ret.sessions[k].PID # <<>>
                        /\ \/ ret.sessions[k].PID = ProcUniverse[i].pid
                           \/ ProcUniverse[i].pid \in DescendantPids(ret.sessions[k].PID, procs)
                  /\ \E k \in TerminalAt : ret.sessions[k].PID = ProcUniverse[i].pid

\* the pids that are pane PIDs of returned tmux sessions and rows of the
\* terminal scan naming claude on a terminal
PanePidsSeenAsTerminalClaude ==
    {ProcUniverse[i].pid : i \in {j \in seenScan.procs : RunsClaude(j) /\ HasTty(j)}}
        \cap {ret.sessions[k].PID : k \in ManagedAt}

C3_TerminalOnlyOneProcess ==
    (Returned /\ TerminalOnly /\ seenScan.ok) =>
        \A i \in seenScan.procs :
            {j \in seenScan.procs : RunsClaude(j) /\ HasTty(j)} = {i} =>
                /\ Len(ret.sessions) = 1
                /\ ~ret.sessions[1].Managed
                /\ ret.sessions[1].Status = "terminal"
                /\ ret.sessions[1].PID = ProcUniverse[i].pid

\* tmux has no server, claude runs in a terminal tab next to a claude
\* without a terminal
C3_Witness ==
    /\ Returned /\ tmuxMode = "noserver" /\ seenScan.ok
    /\ seenScan.procs = {4, 5}
    /\ Len(ret.sessions) = 1

\* C4: Detect returns a nil error on every path; with a failed or empty
\* listing and a failed process enumeration the session list is empty.
C4_DetectNeverFails ==
    Returned =>
        /\ ~ret.err
        /\ (TerminalOnly /\ ~seenScan.ok) => ret.sessions = <<>>

C4_Witness ==
    /\ Returned
    /\ tmuxMode = "error"
    /\ ~seenScan.ok
    /\ procs # {}
    /\ ret = [sessions |-> <<>>, err |-> FALSE]

\* the sessions of the server whose list-sessions line has its six fields
ListedSessions == {n \in tmuxSess : Len(TmuxUniverse[n].fields) >= 6}

NameOf(n) == TmuxUniverse[n].fields[1]

NameQualifies(n) ==
    \/ (Len(NameOf(n)) >= 3 /\ SubSeq(NameOf(n), 1, 3) = <<"c","d","-">>)
    \/ Contains(ToLower(NameOf(n)), <<"c","l","a","u","d","e">>)

PaneCommandQualifies(n) ==
    /\ ~TmuxUniverse[n].paneCmd.err
    /\ \E cmd \in {<<"c","l","a","u","d","e">>, <<"C","l","a","u","d","e">>} :
          TmuxUniverse[n].paneCmd = Printed(<<cmd>>)

\* the processes the snapshot has a row for
SnapshotProcs == IF seenTable.ok THEN {i \in seenTable.procs : ProcUniverse[i].argv # <<>>} ELSE {}

MentionsClaude(i) ==
    \E t \in 1..Len(ProcUniverse[i].argv) :
        Contains(ToLower(ProcUniverse[i].argv[t]), <<"c","l","a","u","d","e">>)

DescendantQualifies(n) ==
    /\ ~TmuxUniverse[n].panePid.err
    /\ \E i \in SnapshotProcs :
          /\ MentionsClaude(i)
          /\ \E root \in {ProcUniverse[j].pid : j \in ProcIds} :
                /\ TmuxUniverse[n].panePid = Printed(<<root>>)
                /\ ProcUniverse[i].pid \in DescendantPids(root, SnapshotProcs)

IsReturnedManaged(n) == \E k \in ManagedAt : ret.sessions[k].Name = NameOf(n)

\* C5: a parsed tmux session is returned as a Managed=true Session exactly
\* when its name starts with cd-, or its lowercased name contains claude,
\* or, failing both, a pane's current command contains claude or a
\* descendant of the pane PID has claude in its command line; for a
\* name-matched session HasClaudeProcess is not called.
C5_CandidateFilter ==
    Returned =>
        /\ TerminalOnly => ManagedAt = {}
        /\ ~TerminalOnly =>
             \A n \in ListedSessions :
                /\ IsReturnedManaged(n) <=>
                      (NameQualifies(n) \/ PaneCommandQualifies(n) \/ DescendantQualifies(n))
                /\ NameQualifies(n) <=> NameOf(n) \notin asked

\* the plain shell session is returned because claude runs below its shell
C5_Witness ==
    /\ Returned
    /\ 4 \in tmuxSess
    /\ ~NameQualifies(4) /\ ~PaneCommandQualifies(4) /\ DescendantQualifies(4)
    /\ IsReturnedManaged(4)
    /\ NameOf(4) \in asked

\* the pids, in row order, of the processes of ps naming claude on a
\* terminal outside the pid set
RECURSIVE TerminalClaudePids(_, _, _)
TerminalClaudePids(ps, excluded, i) ==
    IF i > Len(ProcUniverse) THEN <<>>
    ELSE (IF /\ i \in ps
             /\ RunsClaude(i) /\ HasTty(i)
             /\ ProcUniverse[i].pid \notin excluded
          THEN <<ProcUniverse[i].pid>> ELSE <<>>)
         \o TerminalClaudePids(ps, excluded, i + 1)

ReturnedTerminal == SelectSeq(ret.sessions, LAMBDA s : ~s.Managed)

\* C6: DetectTerminalSessions emits one Session, Managed=false with status
\* terminal and the row's pid, for exactly the rows after the header that
\* have at least four fields, a first command token of base name claude, a
\* tty other than ? and ??, and a pid outside the supplied set; nothing
\* else is emitted.
C6_TerminalScanRows ==
    Returned =>
        /\ [k \in 1..Len(ReturnedTerminal) |-> ReturnedTerminal[k].PID]
              = IF seenScan.ok THEN TerminalClaudePids(seenScan.procs, tmuxPIDs, 1) ELSE <<>>
        /\ \A k \in 1..Len(ReturnedTerminal) :
              ReturnedTerminal[k].Status = "terminal"

\* of the claude rows one has no terminal, a further row does not name
\* claude, and one Session is emitted
C6_Witness ==
    /\ Returned /\ seenScan.ok
    /\ \E i \in seenScan.procs : ~HasTty(i) /\ RunsClaude(i)
    /\ \E i \in seenScan.procs : ~RunsClaude(i)
    /\ Len(ReturnedTerminal) = 1

----------------------------------------------------------------------------
(* the dashboard: internal/app/app.go, internal/session/manager.go *)

\* one character of the class [a-zA-Z0-9_./-]
IsNameChar(c) ==
    \/ \E i \in 1..26 : UpperAlpha[i] = c \/ LowerAlpha[i] = c
    \/ IsDigit(c)
    \/ c \in {"_", ".", "/", "-"}

\* validSessionName.MatchString: ^[a-zA-Z0-9_./-]+$
validSessionName(name) ==
    name # <<>> /\ \A i \in 1..Len(name) : IsNameChar(name[i])

\* string(s.Status)
StatusText(st) ==
    CASE st = StatusActive -> <<"a","c","t","i","v","e">>
      [] st = StatusIdle -> <<"i","d","l","e">>
      [] st = StatusWaiting -> <<"w","a","i","t","i","n","g">>
      [] st = StatusTerminal -> <<"t","e","r","m","i","n","a","l">>
      [] OTHER -> <<"u","n","k","n","o","w","n">>

\* mutant of matchesQuery: the path is not looked at
matchesQueryNoPath(s, query) ==
    \/ Contains(ToLower(s.Name), query)
    \/ Contains(ToLower(s.Project), query)
    \/ Contains(ToLower(StatusText(s.Status)), query)

\* the condition of the loop body of FilterSessions; query is lowercased
matchesQuery(s, query) ==
    \/ Contains(ToLower(s.Name), query)
    \/ Contains(ToLower(s.Project), query)
    \/ Contains(ToLower(StatusText(s.Status)), query)
    \/ Contains(ToLower(s.Path), query)

RECURSIVE filterLoop(_, _)
filterLoop(ss, query) ==
    IF ss = <<>> THEN <<>>
    ELSE (IF matchesQuery(ss[1], query) THEN <<ss[1]>> ELSE <<>>)
             \o filterLoop(Tail(ss), query)

FilterSessions(ss, query) ==
    IF query = <<>> THEN ss ELSE filterLoop(ss, ToLower(query))

\* m.filteredSessions()
filteredSessions(mm) == FilterSessions(mm.sessions, mm.filterQuery)

\* ---- the commands (tea.Cmd) and the messages they return ----
\* sel is not a field of the program: it remembers the Managed flag of the
\* session that was selected when the command was made

Cmd(kind, name, sel) == [kind |-> kind, name |-> name, sel |-> sel]

refreshSessions == Cmd("refresh", <<>>, TRUE)
attachSession(s) == Cmd("attach", s.Name, s.Managed)
killSession(s) == Cmd("kill", s.Name, s.Managed)
createSession(name) == Cmd("create", name, TRUE)
fetchLogs(s) == Cmd("logs", s.Name, s.Managed)
fetchConversation(s) == Cmd("conversation", s.Path, s.Managed)

Msg(kind, ss, err, name, sel) ==
    [kind |-> kind, Sessions |-> ss, Err |-> err, Name |-> name, sel |-> sel]

SessionsMsg(ss, err) == Msg("SessionsMsg", ss, err, <<>>, TRUE)
KillMsg(err) == Msg("KillMsg", <<>>, err, <<>>, TRUE)
CreateMsg(err) == Msg("CreateMsg", <<>>, err, <<>>, TRUE)
LogsMsg(err) == Msg("LogsMsg", <<>>, err, <<>>, TRUE)
AttachMsg(name, sel) == Msg("AttachMsg", <<>>, NoErr, name, sel)

\* what Update and the key handlers return: the model, the commands of the
\* returned tea.Cmd (a batch is the sequence of its members) and whether
\* tea.Quit is among them
Ret(mm, cs, q) == [m |-> mm, cmd |-> cs, quit |-> q]

ErrAttachTerminal == "terminal sessions cannot be attached (not a tmux session)"
ErrKillTerminal == "terminal sessions cannot be killed from dashboard"
ErrInvalidName == "invalid session name"
ErrList == "list failed"
ErrKill == "failed to kill session"
ErrCreate == "failed to create session"
ErrLogs == "capture-pane failed"

\* mutant of mayAttach: enter attaches whatever is selected
mayAttachAnySession(s) == TRUE

\* handleDashboardKey, case "enter": the Managed test
mayAttach(s) == s.Managed

\* handleDashboardKey and handleDetailKey, case "K": the Managed test
mayKill(s) == s.Managed

\* sessions[m.cursor] with a negative cursor: the index is out of range and
\* the goroutine panics; the program ends without an attach target
ErrPanic == "panic: index out of range"
Panic(mm) == Ret([mm EXCEPT !.err = ErrPanic], <<>>, TRUE)

\* the K case shared by the dashboard and the detail view
askKill(mm, selected) ==
    IF selected
    THEN IF mm.cursor < 0 THEN Panic(mm)
         ELSE LET s == filteredSessions(mm)[mm.cursor + 1]
              IN  IF ~mayKill(s) THEN Ret([mm EXCEPT !.err = ErrKillTerminal], <<>>, FALSE)
                  ELSE Ret([mm EXCEPT !.confirming = TRUE, !.confirmMsg = s.Name],
                           <<>>, FALSE)
    ELSE Ret(mm, <<>>, FALSE)

handleDashboardKey(mm, key) ==
    LET ss == filteredSessions(mm)
        selected == Len(ss) > 0 /\ mm.cursor < Len(ss)
        s == ss[mm.cursor + 1]
    IN  CASE key = "q" -> Ret(mm, <<>>, TRUE)
          [] key \in {"up", "k"} ->
                Ret(IF mm.cursor > 0 THEN [mm EXCEPT !.cursor = @ - 1] ELSE mm, <<>>, FALSE)
          [] key \in {"down", "j"} ->
                Ret(IF mm.cursor < Len(ss) - 1 THEN [mm EXCEPT !.cursor = @ + 1] ELSE mm,
                    <<>>, FALSE)
          [] key = "enter" ->
                IF selected
                THEN IF mm.cursor < 0 THEN Panic(mm)
                     ELSE IF ~mayAttach(s)
                     THEN Ret([mm EXCEPT !.err = ErrAttachTerminal], <<>>, FALSE)
                     ELSE Ret(mm, <<attachSession(s)>>, FALSE)
                ELSE Ret(mm, <<>>, FALSE)
          [] key = "n" ->
                Ret([mm EXCEPT !.view = ViewCreate, !.createForm = NewCreateForm], <<>>, FALSE)
          [] key = "K" -> askKill(mm, selected)
          [] key = "l" ->
                IF selected
                THEN IF mm.cursor < 0 THEN Panic(mm)
                     ELSE Ret([mm EXCEPT !.view = ViewLogs],
                              <<IF s.Managed THEN fetchLogs(s) ELSE fetchConversation(s)>>,
                              FALSE)
                ELSE Ret(mm, <<>>, FALSE)
          [] key = "d" ->
                Ret(IF selected THEN [mm EXCEPT !.view = ViewDetail] ELSE mm, <<>>, FALSE)
          [] key = "/" ->
                Ret([mm EXCEPT !.filtering = TRUE, !.filterText = mm.filterQuery], <<>>, FALSE)
          [] key = "r" -> Ret(mm, <<refreshSessions>>, FALSE)
          [] key = "?" -> Ret([mm EXCEPT !.view = ViewHelp], <<>>, FALSE)
          [] OTHER -> Ret(mm, <<>>, FALSE)

handleLogsKey(mm, key) ==
    CASE key = "esc" -> Ret([mm EXCEPT !.view = ViewDashboard], <<>>, FALSE)
      [] key = "q" -> Ret(mm, <<>>, TRUE)
      [] OTHER -> Ret(mm, <<>>, FALSE)

handleDetailKey(mm, key) ==
    LET ss == filteredSessions(mm)
    IN  CASE key = "esc" -> Ret([mm EXCEPT !.view = ViewDashboard], <<>>, FALSE)
          [] key = "q" -> Ret(mm, <<>>, TRUE)
          [] key = "l" ->
                IF mm.cursor < Len(ss)
                THEN IF mm.cursor < 0 THEN Panic(mm)
                     ELSE LET s == ss[mm.cursor + 1]
                          IN  Ret([mm EXCEPT !.view = ViewLogs], <<fetchLogs(s)>>, FALSE)
                ELSE Ret(mm, <<>>, FALSE)
          [] key = "K" -> askKill(mm, mm.cursor < Len(ss))
          [] OTHER -> Ret(mm, <<>>, FALSE)

\* CreateForm.Validate on the values of the two inputs
Validate(nameInput, dirInput) ==
    LET name == TrimSpace(nameInput)
        dir == TrimSpace(dirInput)
    IN  IF name = <<>> THEN <<"n","a","m","e","?">>
        ELSE IF Contains(name, <<" ">>) THEN <<"s","p","a","c","e","s">>
        ELSE IF dir = <<>> THEN <<"d","i","r","?">>
        ELSE <<>>

\* nameInput and dirInput are what the two text inputs hold when the key
\* arrives
handleCreateKey(mm, key, nameInput, dirInput) ==
    CASE key = "esc" -> Ret([mm EXCEPT !.view = ViewDashboard], <<>>, FALSE)
      [] key = "tab" -> Ret(mm, <<>>, FALSE)
      [] key = "enter" ->
            IF Validate(nameInput, dirInput) # <<>>
            THEN Ret([mm EXCEPT !.createForm.Err = Validate(nameInput, dirInput)], <<>>, FALSE)
            ELSE Ret(mm, <<createSession(TrimSpace(nameInput))>>, FALSE)
      [] OTHER -> Ret(mm, <<>>, FALSE)

handleHelpKey(mm, key) ==
    IF key \in {"esc", "?", "q"}
    THEN Ret([mm EXCEPT !.view = ViewDashboard], <<>>, FALSE)
    ELSE Ret(mm, <<>>, FALSE)

\* mutant of confirmKills: n confirms as well
confirmKillsOnN(key) == key \in {"y", "Y", "n"}

\* handleConfirmKey: the keys of the first case
confirmKills(key) == key \in {"y", "Y"}

handleConfirmKey(mm, key) ==
    LET ss == filteredSessions(mm)
    IN  CASE confirmKills(key) ->
                IF mm.cursor < Len(ss)
                THEN IF mm.cursor < 0 THEN Panic(mm)
                     ELSE Ret(mm, <<killSession(ss[mm.cursor + 1])>>, FALSE)
                ELSE Ret([mm EXCEPT !.confirming = FALSE], <<>>, FALSE)
          [] key \in {"n", "N", "esc"} -> Ret([mm EXCEPT !.confirming = FALSE], <<>>, FALSE)
          [] OTHER -> Ret(mm, <<>>, FALSE)

\* typed is the value of the filter input after it has handled the key
handleFilterKey(mm, key, typed) ==
    CASE key = "enter" ->
            Ret([mm EXCEPT !.filterQuery = mm.filterText, !.filtering = FALSE, !.cursor = 0],
                <<>>, FALSE)
      [] key = "esc" ->
            Ret([mm EXCEPT !.filterQuery = <<>>, !.filtering = FALSE, !.cursor = 0],
                <<>>, FALSE)
      [] OTHER -> Ret([mm EXCEPT !.filterText = typed, !.filterQuery = typed], <<>>, FALSE)

handleKey(mm, key, typed, nameInput, dirInput) ==
    IF key = "ctrl+c" THEN Ret(mm, <<>>, TRUE)
    ELSE IF mm.confirming THEN handleConfirmKey(mm, key)
    ELSE IF mm.filtering THEN handleFilterKey(mm, key, typed)
    ELSE CASE mm.view = ViewDashboard -> handleDashboardKey(mm, key)
           [] mm.view = ViewLogs -> handleLogsKey(mm, key)
           [] mm.view = ViewDetail -> handleDetailKey(mm, key)
           [] mm.view = ViewCreate -> handleCreateKey(mm, key, nameInput, dirInput)
           [] mm.view = ViewHelp -> handleHelpKey(mm, key)
           [] OTHER -> Ret(mm, <<>>, FALSE)

\* Update, case tea.KeyMsg
UpdateKey(mm, key, typed, nameInput, dirInput) ==
    handleKey([mm EXCEPT !.err = NoErr], key, typed, nameInput, dirInput)

\* mutant of UpdateTick: the refresh is started and no next tick
UpdateTickWithoutSuccessor(mm) == Ret(mm, <<refreshSessions>>, FALSE)

\* Update, case monitor.TickMsg
UpdateTick(mm) == Ret(mm, <<refreshSessions, Cmd("tick", <<>>, TRUE)>>, FALSE)

\* Update, the cases of the messages the commands return
UpdateMsg(mm, msg) ==
    CASE msg.kind = "SessionsMsg" ->
            LET m1 == IF msg.Err # NoErr THEN [mm EXCEPT !.err = msg.Err]
                      ELSE [mm EXCEPT !.sessions = msg.Sessions]
            IN  Ret(IF m1.cursor >= Len(m1.sessions) /\ m1.cursor > 0
                    THEN [m1 EXCEPT !.cursor = Len(m1.sessions) - 1] ELSE m1, <<>>, FALSE)
      [] msg.kind = "KillMsg" ->
            Ret([(IF msg.Err # NoErr THEN [mm EXCEPT !.err = msg.Err] ELSE mm)
                     EXCEPT !.confirming = FALSE], <<refreshSessions>>, FALSE)
      [] msg.kind = "CreateMsg" ->
            IF msg.Err # NoErr
            THEN Ret([mm EXCEPT !.createForm.Err = <<"e","r","r">>], <<>>, FALSE)
            ELSE Ret([mm EXCEPT !.view = ViewDashboard], <<refreshSessions>>, FALSE)
      [] msg.kind = "LogsMsg" ->
            IF msg.Err # NoErr THEN Ret([mm EXCEPT !.err = msg.Err], <<>>, FALSE)
            ELSE Ret(mm, <<>>, FALSE)
      [] msg.kind = "AttachMsg" ->
            IF ~validSessionName(msg.Name)
            THEN Ret([mm EXCEPT !.err = ErrInvalidName], <<>>, FALSE)
            ELSE Ret([mm EXCEPT !.attachTarget = msg.Name], <<>>, TRUE)
      [] OTHER -> Ret(mm, <<>>, FALSE)

\* View, case ViewDetail: sessions[m.cursor] is read to render the session
View(r) ==
    IF ~r.quit /\ r.m.view = ViewDetail /\ r.m.cursor < Len(filteredSessions(r.m))
       /\ r.m.cursor < 0
    THEN Panic(r.m) ELSE r

\* View writes confirmMsg only while confirming is set: the text of a prompt
\* that is no longer shown is read by nothing, and is not kept
Rendered(mm) == IF mm.confirming THEN mm ELSE [mm EXCEPT !.confirmMsg = <<>>]

\* Init: the batch started with the program
InitCmds == <<refreshSessions, Cmd("tick", <<>>, TRUE)>>
----------------------------------------------------------------------------
(* the dashboard program: what exists on the machine, the key presses, the *)
(* commands in their goroutines and the messages given to Update           *)

\* bound on the commands in flight, the timer apart
MaxInFlight == 2

\* the sessions Manager.List can report, in the order Detect returns them:
\* tmux sessions first, terminal sessions after them
UiUniverse == <<
    [Name |-> <<"c","d","-","d">>, Project |-> <<"d">>, Status |-> StatusIdle,
     Path |-> <<"/","w","/","d">>, Managed |-> TRUE],
    [Name |-> <<"m","y"," ","c","l","a","u","d","e">>, Project |-> <<"x">>,
     Status |-> StatusWaiting, Path |-> <<"/","w","/","x">>, Managed |-> TRUE],
    [Name |-> <<"t","e","r","m","i","n","a","l","/","p","t","s","/","1">>,
     Project |-> <<"p">>, Status |-> StatusTerminal, Path |-> <<"/","w","/","p">>,
     Managed |-> FALSE] >>

UiIds == 1..Len(UiUniverse)

\* Manager.List while the sessions h exist
RECURSIVE SessionsFrom(_, _)
SessionsFrom(h, i) ==
    IF i > Len(UiUniverse) THEN <<>>
    ELSE (IF i \in h THEN <<UiUniverse[i]>> ELSE <<>>) \o SessionsFrom(h, i + 1)

List(h) == SessionsFrom(h, 1)

\* the keys pressed in the runs explored
Keys == {"ctrl+c", "q", "up", "down", "enter", "n", "K", "l", "d", "r", "esc",
         "y", "Y", "N"}

\* what the filter input may hold after a key, and what the two inputs of
\* the create form may hold when enter is pressed
FilterTexts == {<<>>, <<"d">>}
NameInputs == {<<>>, <<"d">>}
DirInputs == {<<"/","w">>}

RECURSIVE SeqToBag(_)
SeqToBag(cs) ==
    IF cs = <<>> THEN EmptyBag ELSE SetToBag({cs[1]}) (+) SeqToBag(Tail(cs))

TickCmd == Cmd("tick", <<>>, TRUE)
TickMsg == Msg("TickMsg", <<>>, NoErr, <<>>, TRUE)

\* the commands in flight, the timer apart
InFlight(cs) == BagCardinality(cs) - CopiesIn(TickCmd, cs)

\* the runtime after Update returned r: View renders the model, the commands
\* of r start in goroutines of their own, tea.Quit ends the loop
AfterUpdate(r, cs) ==
    /\ model' = Rendered(View(r).m)
    /\ cmds' = cs (+) SeqToBag(r.cmd)
    /\ quit' = View(r).quit
    /\ InFlight(cmds') <= MaxInFlight

InitUi ==
    /\ CoreQuiet
    /\ PollQuiet
    /\ FnQuiet
    /\ model = NewModel
    /\ cmds = SeqToBag(InitCmds)
    /\ quit = FALSE
    /\ run = InTui
    /\ passes = NoPasses

\* the inputs hold text only while they are shown
TypedNow == IF model.filtering /\ ~model.confirming THEN FilterTexts ELSE {<<>>}
NameNow == IF model.view = ViewCreate THEN NameInputs ELSE {<<>>}
DirNow == IF model.view = ViewCreate THEN DirInputs ELSE {<<>>}

\* a key press reaches Update
KeyPress(key) ==
    /\ ~quit
    /\ \E typed \in TypedNow, nameInput \in NameNow, dirInput \in DirNow :
           AfterUpdate(UpdateKey(model, key, typed, nameInput, dirInput), cmds)
    /\ UNCHANGED <<run, passes, coreVars, pollVars, fnVars>>

\* a command ends: the message it returns is given to Update
Ends(c, msg) ==
    /\ ~quit
    /\ BagIn(c, cmds)
    /\ AfterUpdate(IF msg.kind = "TickMsg" THEN UpdateTick(model) ELSE UpdateMsg(model, msg),
                   cmds (-) SetToBag({c}))
    /\ UNCHANGED <<run, passes, coreVars, pollVars, fnVars>>

\* refreshSessions: Manager.List reports the sessions h that exist at that
\* moment, or fails; SessionsMsg
RunRefresh ==
    \/ \E h \in SUBSET UiIds : Ends(refreshSessions, SessionsMsg(List(h), NoErr))
    \/ Ends(refreshSessions, SessionsMsg(<<>>, ErrList))

\* monitor.TickCmd: the refresh interval has passed, TickMsg
RunTick == Ends(TickCmd, TickMsg)

\* attachSession: AttachMsg
RunAttach ==
    \E c \in BagToSet(cmds) : c.kind = "attach" /\ Ends(c, AttachMsg(c.name, c.sel))

\* killSession: Manager.Kill (tmux kill-session -t name) succeeds or fails;
\* KillMsg
RunKill ==
    \E c \in BagToSet(cmds) :
        c.kind = "kill" /\ \E err \in {NoErr, ErrKill} : Ends(c, KillMsg(err))

\* createSession: Manager.Create (tmux new-session) succeeds or fails;
\* CreateMsg
RunCreate ==
    \E c \in BagToSet(cmds) :
        c.kind = "create" /\ \E err \in {NoErr, ErrCreate} : Ends(c, CreateMsg(err))

\* fetchLogs and fetchConversation: LogsMsg
RunFetch ==
    \E c \in BagToSet(cmds) :
        c.kind \in {"logs", "conversation"} /\ \E err \in {NoErr, ErrLogs} : Ends(c, LogsMsg(err))

ErrRun == "could not open a new TTY"
ErrNoTmux == "tmux is required: tmux not found"

\* mutant of normalQuit: Run takes every exit for a normal quit
normalQuitAlways(mm) == TRUE

\* Run(): the test that ends the loop, model.attachTarget == ""
normalQuit(mm) == mm.attachTarget = <<>>

RunReturned(err) == [at |-> "returned", target |-> <<>>, err |-> err]

\* Run(): p.Run() fails when the program cannot take the terminal at its
\* start, and Run returns the error
RunFails ==
    /\ run.at = "tui"
    /\ ~quit
    /\ model = NewModel
    /\ cmds = SeqToBag(InitCmds)
    /\ quit' = TRUE
    /\ run' = RunReturned(ErrRun)
    /\ UNCHANGED <<model, cmds, passes, coreVars, pollVars, fnVars>>

\* Run(): p.Run() returned. A panic of Update or View ends Run with its
\* error; with no attach target Run returns nil
RunReturns ==
    /\ run.at = "tui"
    /\ quit
    /\ model.err = ErrPanic \/ normalQuit(model)
    /\ run' = RunReturned(IF model.err = ErrPanic THEN ErrPanic ELSE NoErr)
    /\ UNCHANGED <<model, cmds, quit, passes, coreVars, pollVars, fnVars>>

\* Run(): the program quit with an attach target: tmux attach-session -t name
\* is run and has the terminal until the user detaches
RunAttaches ==
    /\ run.at = "tui"
    /\ quit
    /\ model.err # ErrPanic
    /\ ~normalQuit(model)
    /\ run' = [at |-> "attach", target |-> model.attachTarget, err |-> NoErr]
    /\ UNCHANGED <<model, cmds, quit, passes, coreVars, pollVars, fnVars>>

\* Run(): attach-session ended; the loop is at its start again, New() builds
\* a model and a new program starts
RunAgain ==
    /\ run.at = "attach"
    /\ model' = NewModel
    /\ cmds' = SeqToBag(InitCmds)
    /\ quit' = FALSE
    /\ run' = InTui
    /\ UNCHANGED <<passes, coreVars, pollVars, fnVars>>

\* Run(): attach-session ended and New() fails, tmux is no longer found
RunNewFails ==
    /\ run.at = "attach"
    /\ run' = RunReturned(ErrNoTmux)
    /\ UNCHANGED <<model, cmds, quit, passes, coreVars, pollVars, fnVars>>

NextUi ==
    \/ \E key \in Keys : KeyPress(key)
    \/ RunRefresh
    \/ RunTick
    \/ RunAttach
    \/ RunKill
    \/ RunCreate
    \/ RunFetch
    \/ RunFails
    \/ RunReturns
    \/ RunAttaches
    \/ RunAgain
    \/ RunNewFails

SpecUi == InitUi /\ [][NextUi]_vars
----------------------------------------------------------------------------
(* properties of the dashboard program *)

\* C11: at most one discovery pass (refreshSessions, that is Manager.List
\* and Detect) is in flight at any time, whatever starts it: the timer, the
\* r key, or the completion of a kill or of a create
C11_OneDiscoveryPassInFlight == CopiesIn(refreshSessions, cmds) <= 1

\* C13: no Manager.Kill is ever issued for a session that is Managed=false,
\* also when a SessionsMsg replaced the list between K and y
C13_NeverKillsTerminalSession ==
    \A c \in BagToSet(cmds) :
        c.kind = "kill" =>
            \E i \in UiIds : UiUniverse[i].Name = c.name /\ UiUniverse[i].Managed

\* the session under the cursor of the dashboard, when there is one
UnderCursor(i) ==
    /\ model.cursor >= 0
    /\ model.cursor < Len(filteredSessions(model))
    /\ filteredSessions(model)[model.cursor + 1] = UiUniverse[i]

OnDashboard ==
    ~quit /\ ~model.confirming /\ ~model.filtering /\ model.view = ViewDashboard

\* the sessions whose names the pattern ^[a-zA-Z0-9_./-]+$ accepts
PatternAccepts(i) == \A k \in 1..Len(UiUniverse[i].Name) : UiUniverse[i].Name[k] # " "

AttachStarted(name) ==
    \E c \in BagToSet(cmds') :
        c.kind = "attach" /\ c.name = name /\ CopiesIn(c, cmds') > CopiesIn(c, cmds)

KillIssued ==
    \E c \in BagToSet(cmds') : c.kind = "kill" /\ CopiesIn(c, cmds') > CopiesIn(c, cmds)

\* C15: Manager.Kill is issued only by y or Y while the confirmation prompt
\* is active; the prompt is activated only by K on a selected session; n, N
\* and esc dismiss the prompt and issue no kill
C15_KillOnlyOnConfirm ==
    [][/\ KillIssued => model.confirming /\ (KeyPress("y") \/ KeyPress("Y"))
       /\ (~model.confirming /\ model'.confirming) =>
              /\ KeyPress("K")
              /\ model.view \in {ViewDashboard, ViewDetail}
              /\ \E i \in UiIds : UnderCursor(i)
       /\ (model.confirming /\ (KeyPress("n") \/ KeyPress("N") \/ KeyPress("esc"))) =>
              ~model'.confirming /\ ~KillIssued]_vars

\* a kill was issued and the prompt is still shown
C15_Witness ==
    /\ model.confirming
    /\ \E c \in BagToSet(cmds) : c.kind = "kill"


(***************************************************************************)
(* the tool invocations of one Detect call: each is started, runs, and     *)
(* returns, hangs, or is ended by the deadline of its context              *)
(***************************************************************************)
defaultTimeout == 5

MaxRaw == 2
MaxTermRows == 2
MaxHangs == 1

\* the program invoked at each position of Detect
ToolOf(pos) ==
    CASE pos = "ListSessions" -> "tmux list-sessions"
      [] pos = "GetProcessTable" -> "ps -eo pid,ppid,%cpu,%mem,args"
      [] pos = "HasClaudeProcess" -> "tmux list-panes pane_current_command"
      [] pos = "HasClaudeProcessPID" -> "tmux list-panes pane_pid"
      [] pos = "CapturePaneContent" -> "tmux capture-pane"
      [] pos = "GetSessionPID" -> "tmux list-panes pane_pid"
      [] pos = "DetectTerminalSessions" -> "ps -eo pid,ppid,tty,args"
      [] pos = "getProcessCWD" -> "lsof"
      [] OTHER -> "none"

\* the invocations made with exec.CommandContext under withTimeout(ctx); the
\* two ps calls and lsof are made with exec.Command
withTimeout(tool) ==
    tool \in {"tmux list-sessions", "tmux list-panes pane_current_command",
              "tmux list-panes pane_pid", "tmux capture-pane"}

\* what Detect uses of a line of tmux list-sessions: whether the name
\* matches, and whether the activity is within idleThreshold
RawKinds == [nameMatch : BOOLEAN, fresh : BOOLEAN]

RawInputs == UNION {[1..n -> RawKinds] : n \in 0..MaxRaw}

Invoke(pos) ==
    IF pos = "done" THEN NoInv
    ELSE [tool |-> ToolOf(pos), state |-> "running", elapsed |-> 0]

Goto(pos, raws, rows) ==
    /\ ppc' = pos
    /\ inv' = Invoke(pos)
    /\ rawLeft' = raws
    /\ rowsLeft' = rows

\* detectStatus captures the pane only when the activity is not fresh; the
\* pane pid is asked for after it
detectStatusAt(raws) ==
    IF Head(raws).fresh THEN "GetSessionPID" ELSE "CapturePaneContent"

\* the head of the loop over the raw sessions
NextRaw(raws) ==
    IF raws = <<>> THEN "DetectTerminalSessions"
    ELSE IF Head(raws).nameMatch THEN detectStatusAt(raws)
    ELSE "HasClaudeProcess"

\* the loop over the claude rows of the terminal scan that are not cached
TerminalRows(rows) == IF rows > 0 THEN "getProcessCWD" ELSE "done"

\* the running invocation ends, with or without an error; found is the
\* outcome of the test made on its output
Returns(ok, found) ==
    CASE ppc = "ListSessions" ->
           IF ok /\ rawLeft # <<>>
           THEN Goto("GetProcessTable", rawLeft, rowsLeft)
           ELSE Goto("DetectTerminalSessions", <<>>, rowsLeft)
      [] ppc = "GetProcessTable" ->
           Goto(NextRaw(rawLeft), rawLeft, rowsLeft)
      [] ppc = "HasClaudeProcess" ->
           IF ok /\ found
           THEN Goto(detectStatusAt(rawLeft), rawLeft, rowsLeft)
           ELSE Goto("HasClaudeProcessPID", rawLeft, rowsLeft)
      [] ppc = "HasClaudeProcessPID" ->
           IF ok /\ found
           THEN Goto(detectStatusAt(rawLeft), rawLeft, rowsLeft)
           ELSE Goto(NextRaw(Tail(rawLeft)), Tail(rawLeft), rowsLeft)
      [] ppc = "CapturePaneContent" ->
           Goto("GetSessionPID", rawLeft, rowsLeft)
      [] ppc = "GetSessionPID" ->
           Goto(NextRaw(Tail(rawLeft)), Tail(rawLeft), rowsLeft)
      [] ppc = "DetectTerminalSessions" ->
           IF ok
           THEN Goto(TerminalRows(rowsLeft), rawLeft, rowsLeft)
           ELSE Goto("done", rawLeft, rowsLeft)
      [] ppc = "getProcessCWD" ->
           Goto(TerminalRows(rowsLeft - 1), rawLeft, rowsLeft - 1)

InitTools ==
    /\ CoreQuiet
    /\ UiQuiet
    /\ FnQuiet
    /\ ppc = "start"
    /\ inv = NoInv
    /\ rawLeft \in RawInputs
    /\ rowsLeft \in 0..MaxTermRows
    /\ hangs = 0

DetectStarts ==
    /\ ppc = "start"
    /\ Goto("ListSessions", rawLeft, rowsLeft)
    /\ UNCHANGED <<hangs, coreVars, uiVars, fnVars>>

ToolReturns ==
    /\ inv.state = "running"
    /\ \E ok \in BOOLEAN, found \in BOOLEAN : Returns(ok, found)
    /\ UNCHANGED <<hangs, coreVars, uiVars, fnVars>>

\* the tool stops making progress and will not exit by itself
ToolHangs ==
    /\ inv.state = "running"
    /\ hangs < MaxHangs
    /\ inv' = [inv EXCEPT !.state = "hung"]
    /\ hangs' = hangs + 1
    /\ UNCHANGED <<ppc, rawLeft, rowsLeft, coreVars, uiVars, fnVars>>

\* a second passes while Detect waits in cmd.Output(); past the deadline the
\* count stops
SecondPasses ==
    /\ inv.state \in {"running", "hung"}
    /\ inv.elapsed <= defaultTimeout
    /\ withTimeout(inv.tool) => inv.elapsed < defaultTimeout
    /\ inv' = [inv EXCEPT !.elapsed = @ + 1]
    /\ UNCHANGED <<ppc, rawLeft, rowsLeft, hangs, coreVars, uiVars, fnVars>>

\* the deadline of the context: the process is killed and cmd.Output()
\* returns an error
DeadlineExpires ==
    /\ inv.state \in {"running", "hung"}
    /\ withTimeout(inv.tool)
    /\ inv.elapsed = defaultTimeout
    /\ Returns(FALSE, FALSE)
    /\ UNCHANGED <<hangs, coreVars, uiVars, fnVars>>

\* the next refresh calls Detect again
DetectAgain ==
    /\ ppc = "done"
    /\ ppc' = "start"
    /\ inv' = NoInv
    /\ rawLeft' \in RawInputs
    /\ rowsLeft' \in 0..MaxTermRows
    /\ UNCHANGED <<hangs, coreVars, uiVars, fnVars>>

NextTools ==
    \/ DetectStarts
    \/ ToolReturns
    \/ ToolHangs
    \/ SecondPasses
    \/ DeadlineExpires
    \/ DetectAgain

SpecTools == InitTools /\ [][NextTools]_vars

(***************************************************************************)
(* properties of the tool invocations                                      *)
(***************************************************************************)

\* C12: Detect returns even if a tool invocation hangs forever: every
\* invocation has a deadline, so that no hung invocation is still waited for
\* once defaultTimeout seconds have passed since it started.
C12_HungInvocationIsCutOff ==
    inv.state = "hung" => withTimeout(inv.tool) /\ inv.elapsed <= defaultTimeout


(***************************************************************************)
(* hasClaudeDescendant, one iteration of its loop at a time                *)
(***************************************************************************)
MaxEdges == 3       \* entries of the parent-to-children index

BfsPids == {<<"1">>, <<"2">>, <<"3">>}

BfsRoot == <<"1">>

ShellArgs == <<"z","s","h">>
UpperArgs == <<"/","C","L","A","U","D","E">>
LowerArgs == <<"c","l","a","u","d","e"," ","-","c">>

BfsArgs == {ShellArgs, UpperArgs, LowerArgs}

\* the children listed for one parent: any processes, in any order, a
\* process being its own child or the child of its child included
ChildLists ==
    {l \in UNION {[1..n -> BfsPids] : n \in 0..MaxEdges} :
        \A i, j \in 1..Len(l) : l[i] = l[j] => i = j}

RECURSIVE SumLen(_, _)
SumLen(f, dom) ==
    IF dom = {} THEN 0
    ELSE LET p == CHOOSE x \in dom : TRUE IN Len(f[p]) + SumLen(f, dom \ {p})

\* map[string][]ProcEntry
Indexes ==
    {[p \in {q \in BfsPids : kids[q] # <<>>} |->
         [i \in 1..Len(kids[p]) |-> [PID |-> kids[p][i], Args |-> args[kids[p][i]]]]] :
       kids \in {f \in [BfsPids -> ChildLists] : SumLen(f, BfsPids) <= MaxEdges},
       args \in [BfsPids -> BfsArgs]}

\* mutant of alreadyVisited: the visited map is not consulted
alreadyVisitedNever(current, visited) == FALSE

\* if visited[current] { continue }
alreadyVisited(current, visited) == current \in visited

\* mutant of matchesClaude: the command line is not lowered
matchesClaudeCaseSensitive(args) == Contains(args, Claude)

\* strings.Contains(strings.ToLower(child.Args), "claude")
matchesClaude(args) == Contains(ToLower(args), Claude)

\* one iteration of "for len(queue) > 0": the head is dequeued; unless it
\* was visited it is marked and its children are tested in order, each one
\* before the first match being enqueued
bfsIter(queue, visited, procChildren) ==
    LET current == Head(queue)
        kids == childrenOf(procChildren, current)
        hits == {i \in 1..Len(kids) : matchesClaude(kids[i].Args)}
        n == IF hits = {} THEN Len(kids) ELSE MinOf(hits) - 1
    IN  IF alreadyVisited(current, visited)
        THEN [found |-> FALSE, queue |-> Tail(queue), visited |-> visited,
              expanded |-> FALSE]
        ELSE [found |-> hits # {},
              queue |-> Tail(queue) \o [i \in 1..n |-> kids[i].PID],
              visited |-> visited \cup {current},
              expanded |-> TRUE]

InitBfs ==
    /\ CoreQuiet
    /\ UiQuiet
    /\ PollQuiet
    /\ FnQuiet

\* hasClaudeDescendant(rootPID, procChildren) is called
BfsCall ==
    /\ fnIn.fn = "none"
    /\ \E pc \in Indexes :
          fnIn' = [fn |-> "hasClaudeDescendant", rootPID |-> BfsRoot, procChildren |-> pc]
    /\ bfsQueue' = <<BfsRoot>>
    /\ bfsVisited' = {}
    /\ UNCHANGED <<fnOut, taken, disk, coreVars, uiVars, pollVars>>

BfsStep ==
    /\ fnIn.fn = "hasClaudeDescendant"
    /\ ~fnOut.done
    /\ bfsQueue # <<>>
    /\ LET r == bfsIter(bfsQueue, bfsVisited, fnIn.procChildren)
       IN  /\ bfsQueue' = r.queue
           /\ bfsVisited' = r.visited
           /\ taken' = Append(taken, [pid |-> Head(bfsQueue), expanded |-> r.expanded])
           /\ fnOut' = IF r.found THEN [done |-> TRUE, val |-> TRUE] ELSE fnOut
    /\ UNCHANGED <<fnIn, disk, coreVars, uiVars, pollVars>>

\* the queue is empty: return false
BfsReturn ==
    /\ fnIn.fn = "hasClaudeDescendant"
    /\ ~fnOut.done
    /\ bfsQueue = <<>>
    /\ fnOut' = [done |-> TRUE, val |-> FALSE]
    /\ UNCHANGED <<fnIn, bfsQueue, bfsVisited, taken, disk, coreVars, uiVars, pollVars>>

NextBfs ==
    \/ BfsCall
    \/ BfsStep
    \/ BfsReturn

SpecBfs == InitBfs /\ [][NextBfs]_vars

(***************************************************************************)
(* properties of hasClaudeDescendant                                       *)
(***************************************************************************)
TimesDequeued(p) == Cardinality({i \in 1..Len(taken) : taken[i].pid = p})

TimesExpanded(p) ==
    Cardinality({i \in 1..Len(taken) : taken[i].pid = p /\ taken[i].expanded})

\* the entries of an index: <<parent, position in its list of children>>
EntriesOf(procChildren) ==
    {e \in BfsPids \X (1..MaxEdges) :
        e[1] \in DOMAIN procChildren /\ e[2] <= Len(procChildren[e[1]])}

HasCycle(procChildren) ==
    \E p \in DOMAIN procChildren :
       \E i \in 1..Len(procChildren[p]) :
          LET c == procChildren[p][i].PID
          IN  \/ c = p
              \/ /\ c \in DOMAIN procChildren
                 /\ \E j \in 1..Len(procChildren[c]) : procChildren[c][j].PID = p

\* C16 as stated: hasClaudeDescendant terminates with a boolean for every
\* finite index, cycles included, and no process id is dequeued more than
\* once or expanded more than once.
C16_EachPidDequeuedAndExpandedOnce ==
    \A p \in BfsPids : TimesDequeued(p) <= 1 /\ TimesExpanded(p) <= 1

\* C16 amended: hasClaudeDescendant terminates with a boolean for every
\* finite index, cycles included: no process id is expanded more than once,
\* an id that was enqueued again is dequeued and skipped, so that the loop
\* makes at most as many iterations as the root and the entries of the
\* index, and what it returns then is a boolean.
C16_TerminatesExpandingEachPidOnce ==
    fnIn.fn = "hasClaudeDescendant" =>
        /\ \A p \in BfsPids : TimesExpanded(p) <= 1
        /\ Len(taken) <= 1 + Cardinality(EntriesOf(fnIn.procChildren))
        /\ fnOut.done \/ bfsQueue # <<>> \/ ENABLED BfsReturn
        /\ fnOut.done => fnOut.val \in BOOLEAN

\* on an index with a cycle, the call has returned after an id came out of
\* the queue a second time and was skipped
C16_Witness ==
    /\ fnOut.done
    /\ HasCycle(fnIn.procChildren)
    /\ \E p \in BfsPids : TimesDequeued(p) = 2 /\ TimesExpanded(p) = 1


\* the processes listed as children of the processes of ps
ListedChildren(procChildren, ps) ==
    {procChildren[e[1]][e[2]].PID : e \in {x \in EntriesOf(procChildren) : x[1] \in ps}}

RECURSIVE ClosedUnderChildren(_, _)
ClosedUnderChildren(procChildren, ps) ==
    LET more == ps \cup ListedChildren(procChildren, ps)
    IN  IF more = ps THEN ps ELSE ClosedUnderChildren(procChildren, more)

\* the processes reachable from root by one or more child edges
ReachableByChildEdges(root, procChildren) ==
    ClosedUnderChildren(procChildren, ListedChildren(procChildren, {root}))

\* the command lines of the inputs that contain claude in some case
IsClaudeCommandLine(args) == args \in {UpperArgs, LowerArgs}

\* some entry lists a process reachable from root with such a command line
SomeDescendantRunsClaude(root, procChildren) ==
    \E e \in EntriesOf(procChildren) :
       /\ procChildren[e[1]][e[2]].PID \in ReachableByChildEdges(root, procChildren)
       /\ e[1] \in {root} \cup ReachableByChildEdges(root, procChildren)
       /\ IsClaudeCommandLine(procChildren[e[1]][e[2]].Args)

\* C17: hasClaudeDescendant(root, index) is true if and only if a process
\* reachable from root by one or more child edges has a command line that
\* contains claude in any case; the command line of the root is not tested
\* unless the index lists the root below itself, and an empty index gives
\* false.
C17_TrueIffDescendantRunsClaude ==
    /\ fnIn.fn = "hasClaudeDescendant" /\ fnOut.done =>
          /\ fnOut.val = SomeDescendantRunsClaude(fnIn.rootPID, fnIn.procChildren)
          /\ fnOut.val = hasClaudeDescendant(fnIn.rootPID, fnIn.procChildren)
          /\ DOMAIN fnIn.procChildren = {} => fnOut.val = FALSE

\* true was returned for a process two edges below the root whose command
\* line has claude in capitals only, no child of the root matching
C17_Witness ==
    /\ fnIn.fn = "hasClaudeDescendant"
    /\ fnOut.done
    /\ fnOut.val = TRUE
    /\ \A e \in EntriesOf(fnIn.procChildren) :
          /\ fnIn.procChildren[e[1]][e[2]].Args # LowerArgs
          /\ e[1] = fnIn.rootPID => fnIn.procChildren[e[1]][e[2]].Args = ShellArgs


(***************************************************************************)
(* ParseSessions on the text of tmux list-sessions                         *)
(***************************************************************************)
MaxParseLines == 3

\* the lines that may stand in the text: white space before the line, the
\* fields between the bars, white space after the line
ParseLineUniverse == <<
    [lead |-> <<>>, fields |-> <<S("a"), S("5"), S("1"), S("3"), S("5"), <<"/","p">>>>, trail |-> <<>>],
    [lead |-> <<>>, fields |-> <<S("b"), S("5"), S("0"), S("3"), S("5"), <<"/","p">>>>, trail |-> <<>>],
    [lead |-> <<>>, fields |-> <<S("c"), S("5"), <<>>, S("3"), S("5"), <<"/","p">>>>, trail |-> <<>>],
    [lead |-> <<>>, fields |-> <<S("d"), S("5"), S("2"), S("3"), S("5"), <<"/","p">>>>, trail |-> <<>>],
    [lead |-> <<>>, fields |-> <<S("e"), S("5"), <<"1","1">>, S("3"), S("5"), <<"/","p">>>>, trail |-> <<>>],
    [lead |-> <<>>, fields |-> <<S("f"), S("5"), <<" ","1">>, S("3"), S("5"), <<"/","p">>>>, trail |-> <<>>],
    \* counts that are no numbers, spaces around the line
    [lead |-> <<" ">>, fields |-> <<S("g"), S("5"), S("1"), S("x"), S("x"), <<"/","p">>>>, trail |-> <<"\r">>],
    \* a seventh field
    [lead |-> <<>>, fields |-> <<S("h"), S("5"), S("1"), S("3"), S("5"), <<"/","p">>, S("z")>>, trail |-> <<>>],
    \* six empty fields
    [lead |-> <<>>, fields |-> <<<<>>, <<>>, <<>>, <<>>, <<>>, <<>>>>, trail |-> <<>>],
    \* an empty line, a line of spaces
    [lead |-> <<>>, fields |-> <<<<>>>>, trail |-> <<>>],
    [lead |-> <<" ">>, fields |-> <<<<>>>>, trail |-> <<" ">>],
    \* one, four and five fields
    [lead |-> <<>>, fields |-> <<S("n")>>, trail |-> <<>>],
    [lead |-> <<>>, fields |-> <<S("k"), S("5"), S("1"), S("3")>>, trail |-> <<>>],
    [lead |-> <<>>, fields |-> <<S("m"), S("5"), S("1"), S("3"), S("5")>>, trail |-> <<>>]
>>

ParseInputs ==
    UNION {[1..n -> 1..Len(ParseLineUniverse)] : n \in 0..MaxParseLines}

LineText(l) == l.lead \o Join(l.fields, <<"|">>) \o l.trail

\* the text tmux prints for the lines chosen
ParseOutput(ids) ==
    Join([i \in 1..Len(ids) |-> LineText(ParseLineUniverse[ids[i]])], <<"\n">>)

InitParse ==
    /\ CoreQuiet
    /\ UiQuiet
    /\ PollQuiet
    /\ \E ids \in ParseInputs :
          fnIn = [fn |-> "ParseSessions", lines |-> ids, output |-> ParseOutput(ids)]
    /\ fnOut = NotReturned
    /\ bfsQueue = <<>>
    /\ bfsVisited = {}
    /\ taken = <<>>
    /\ disk = NoFile

ParseCall ==
    /\ fnIn.fn = "ParseSessions"
    /\ ~fnOut.done
    /\ fnOut' = [done |-> TRUE, val |-> ParseSessions(fnIn.output)]
    /\ UNCHANGED <<fnIn, bfsQueue, bfsVisited, taken, disk, coreVars, uiVars, pollVars>>

NextParse == ParseCall

SpecParse == InitParse /\ [][NextParse]_vars

(***************************************************************************)
(* properties of ParseSessions                                             *)
(***************************************************************************)

\* the number a field of the universe stands for, if it is one
FieldNumber(f) ==
    CASE f = S("5") -> [ok |-> TRUE, val |-> 5]
      [] f = S("3") -> [ok |-> TRUE, val |-> 3]
      [] OTHER -> [ok |-> FALSE, val |-> 0]

IsBlankLine(l) == l.fields = <<<<>>>>

\* the lines, of those chosen, that are not blank and have six fields or more
SixFieldLines(ids) ==
    LET chosen == [i \in 1..Len(ids) |-> ParseLineUniverse[ids[i]]]
        Wanted(l) == ~IsBlankLine(l) /\ Len(l.fields) >= 6
    IN  SelectSeq(chosen, Wanted)

ExpectedTime(f) == IF FieldNumber(f).ok THEN FieldNumber(f).val ELSE ZeroTime

\* C18: ParseSessions yields, in the order of the text, one RawSession for
\* every line that is not blank and has six fields or more, made of its first
\* six fields, and nothing for the other lines, wherever they stand.
C18_OneSessionPerSixFieldLine ==
    fnIn.fn = "ParseSessions" /\ fnOut.done =>
        LET want == SixFieldLines(fnIn.lines)
        IN  /\ Len(fnOut.val) = Len(want)
            /\ \A i \in 1..Len(want) :
                  /\ fnOut.val[i].Name = want[i].fields[1]
                  /\ fnOut.val[i].Created = ExpectedTime(want[i].fields[2])
                  /\ fnOut.val[i].Windows = FieldNumber(want[i].fields[4]).val
                  /\ fnOut.val[i].Activity = ExpectedTime(want[i].fields[5])
                  /\ fnOut.val[i].Path = want[i].fields[6]

\* two sessions came out of three lines, the one between them having fewer
\* than six fields
C18_Witness ==
    /\ fnIn.fn = "ParseSessions"
    /\ fnOut.done
    /\ Len(fnIn.lines) = 3
    /\ Len(ParseLineUniverse[fnIn.lines[1]].fields) >= 6
    /\ Len(ParseLineUniverse[fnIn.lines[2]].fields) \in 2..5
    /\ Len(ParseLineUniverse[fnIn.lines[3]].fields) >= 6
    /\ Len(fnOut.val) = 2

\* C19: Attached is true only when the third field is the literal 1; every
\* other value of the field, the empty one, 0 and 2 included, gives false.
C19_AttachedOnlyForLiteralOne ==
    fnIn.fn = "ParseSessions" /\ fnOut.done =>
        LET want == SixFieldLines(fnIn.lines)
        IN  /\ Len(fnOut.val) = Len(want)
            /\ \A i \in 1..Len(want) :
                  fnOut.val[i].Attached = (want[i].fields[3] = <<"1">>)

\* one text gave an attached session and sessions not attached for the
\* third fields 2 and empty
C19_Witness ==
    /\ fnIn.fn = "ParseSessions"
    /\ fnOut.done
    /\ Len(fnOut.val) = 3
    /\ fnOut.val[1].Attached
    /\ ParseLineUniverse[fnIn.lines[2]].fields[3] = <<"2">> /\ ~fnOut.val[2].Attached
    /\ ParseLineUniverse[fnIn.lines[3]].fields[3] = <<>> /\ ~fnOut.val[3].Attached


(***************************************************************************)
(* parseJSONL: the lines of a .jsonl file as json.Unmarshal decodes them   *)
(***************************************************************************)
MaxJsonlLines == 4
MaxKeep == 3        \* maxMessages of the calls

NoContent == [kind |-> "nil", str |-> <<>>, blocks |-> <<>>]
NoMessage == [isNil |-> TRUE, Role |-> <<>>, Content |-> NoContent]
Text(s) == [kind |-> "string", str |-> s, blocks |-> <<>>]
Blocks(bs) == [kind |-> "blocks", str |-> <<>>, blocks |-> bs]
TextBlock(s) == [type |-> "text", text |-> s]
ToolBlock == [type |-> "tool_use", text |-> <<>>]

RoleUser == <<"u","s","e","r">>
RoleAssistant == <<"a","s","s","i","s","t","a","n","t">>
RoleSystem == <<"s","y","s","t","e","m">>

\* the kinds of line, the i-th line of the file carrying i in its text and
\* in its timestamp
JsonlKinds == {"user", "assistant", "malformed", "system", "nomessage", "empty"}

JsonlEntry(kind, i) ==
    CASE kind = "user" ->
           [ok |-> TRUE, Type |-> RoleUser, Timestamp |-> [valid |-> TRUE, at |-> i],
            Message |-> [isNil |-> FALSE, Role |-> RoleUser,
                         Content |-> Text(<<"q", Digits[i + 1]>>)]]
      [] kind = "assistant" ->
           [ok |-> TRUE, Type |-> RoleAssistant, Timestamp |-> [valid |-> FALSE, at |-> i],
            Message |-> [isNil |-> FALSE, Role |-> RoleAssistant,
                         Content |-> Blocks(<<TextBlock(<<"a", Digits[i + 1]>>), ToolBlock,
                                              TextBlock(<<>>), TextBlock(<<"b">>)>>)]]
      [] kind = "malformed" ->
           [ok |-> FALSE, Type |-> <<>>, Timestamp |-> [valid |-> FALSE, at |-> 0],
            Message |-> NoMessage]
      [] kind = "system" ->
           [ok |-> TRUE, Type |-> RoleSystem, Timestamp |-> [valid |-> TRUE, at |-> i],
            Message |-> [isNil |-> FALSE, Role |-> RoleSystem,
                         Content |-> Text(<<"s", Digits[i + 1]>>)]]
      [] kind = "nomessage" ->
           [ok |-> TRUE, Type |-> RoleUser, Timestamp |-> [valid |-> TRUE, at |-> i],
            Message |-> NoMessage]
      [] kind = "empty" ->
           [ok |-> TRUE, Type |-> RoleAssistant, Timestamp |-> [valid |-> TRUE, at |-> i],
            Message |-> [isNil |-> FALSE, Role |-> RoleAssistant,
                         Content |-> Blocks(<<ToolBlock>>)]]

JsonlFiles == UNION {[1..n -> JsonlKinds] : n \in 0..MaxJsonlLines}

FileEntries(kinds) == [i \in 1..Len(kinds) |-> JsonlEntry(kinds[i], i)]

\* the texts of the text blocks that are not empty
RECURSIVE blockTexts(_)
blockTexts(blocks) ==
    IF blocks = <<>> THEN <<>>
    ELSE (IF blocks[1].type = "text" /\ blocks[1].text # <<>>
          THEN <<blocks[1].text>> ELSE <<>>) \o blockTexts(Tail(blocks))

extractContent(msg) ==
    CASE msg.Content.kind = "nil" -> <<>>
      [] msg.Content.kind = "string" -> msg.Content.str
      [] msg.Content.kind = "blocks" -> Join(blockTexts(msg.Content.blocks), <<"\n">>)
      [] OTHER -> <<>>

\* time.Parse(time.RFC3339Nano, s) with its error dropped
parseTimestamp(ts) == IF ts.valid THEN ts.at ELSE ZeroTime

scanLine(entry) ==
    LET none == [ok |-> FALSE, msg |-> [Role |-> <<>>, Content |-> <<>>, Timestamp |-> ZeroTime]]
    IN  IF ~entry.ok THEN none
        ELSE IF entry.Type # RoleUser /\ entry.Type # RoleAssistant THEN none
        ELSE IF entry.Message.isNil THEN none
        ELSE IF extractContent(entry.Message) = <<>> THEN none
        ELSE [ok |-> TRUE,
              msg |-> [Role |-> entry.Message.Role,
                       Content |-> extractContent(entry.Message),
                       Timestamp |-> parseTimestamp(entry.Timestamp)]]

\* the scan loop over the ring: ring[head] = msg; head = (head + 1) %
\* maxMessages; count++
RECURSIVE ringScan(_, _, _, _, _)
ringScan(entries, ring, head, count, maxMessages) ==
    IF entries = <<>> THEN [ring |-> ring, head |-> head, count |-> count]
    ELSE LET r == scanLine(entries[1])
         IN  IF ~r.ok THEN ringScan(Tail(entries), ring, head, count, maxMessages)
             ELSE ringScan(Tail(entries), [ring EXCEPT ![head] = r.msg],
                           (head + 1) % maxMessages, count + 1, maxMessages)

\* mutant of ringStart: the result is read from the first slot of the ring
ringStartAtZero(head, size, maxMessages) == 0

\* start := (head - size + maxMessages*2) % maxMessages
ringStart(head, size, maxMessages) == (head - size + maxMessages * 2) % maxMessages

RECURSIVE scanAll(_)
scanAll(entries) ==
    IF entries = <<>> THEN <<>>
    ELSE LET r == scanLine(entries[1])
         IN  (IF r.ok THEN <<r.msg>> ELSE <<>>) \o scanAll(Tail(entries))

\* internal/conversation/reader.go; the ring is indexed from 0
parseJSONL(entries, maxMessages) ==
    IF maxMessages <= 0 THEN scanAll(entries)
    ELSE LET zero == [Role |-> <<>>, Content |-> <<>>, Timestamp |-> ZeroTime]
             s == ringScan(entries, [i \in 0..(maxMessages - 1) |-> zero], 0, 0, maxMessages)
             size == IF s.count > maxMessages THEN maxMessages ELSE s.count
             start == ringStart(s.head, size, maxMessages)
         IN  IF s.count = 0 THEN <<>>
             ELSE [i \in 1..size |-> s.ring[(start + i - 1) % maxMessages]]

\* the version before the ring: every message is collected, then
\* messages[len(messages)-maxMessages:]
parseJSONLCollect(entries, maxMessages) ==
    LET messages == scanAll(entries)
    IN  IF maxMessages > 0 /\ Len(messages) > maxMessages
        THEN SubSeq(messages, Len(messages) - maxMessages + 1, Len(messages))
        ELSE messages

InitJsonl ==
    /\ CoreQuiet
    /\ UiQuiet
    /\ PollQuiet
    /\ \E kinds \in JsonlFiles, n \in 1..MaxKeep :
          fnIn = [fn |-> "parseJSONL", kinds |-> kinds, entries |-> FileEntries(kinds),
                  maxMessages |-> n]
    /\ fnOut = NotReturned
    /\ bfsQueue = <<>>
    /\ bfsVisited = {}
    /\ taken = <<>>
    /\ disk = NoFile

JsonlCall ==
    /\ fnIn.fn = "parseJSONL"
    /\ ~fnOut.done
    /\ fnOut' = [done |-> TRUE, val |-> parseJSONL(fnIn.entries, fnIn.maxMessages)]
    /\ UNCHANGED <<fnIn, bfsQueue, bfsVisited, taken, disk, coreVars, uiVars, pollVars>>

NextJsonl == JsonlCall

SpecJsonl == InitJsonl /\ [][NextJsonl]_vars

(***************************************************************************)
(* properties of parseJSONL                                                *)
(***************************************************************************)

\* the positions of the lines that are user or assistant messages with text
ValidPositions(kinds) == {i \in 1..Len(kinds) : kinds[i] \in {"user", "assistant"}}

\* the text the i-th line carries
CarriedText(kinds, i) ==
    IF kinds[i] = "user" THEN <<"q", Digits[i + 1]>>
    ELSE <<"a", Digits[i + 1], "\n", "b">>

\* the i-th smallest element of a set of numbers
RECURSIVE Nth(_, _)
Nth(positions, i) ==
    IF i = 1 THEN MinOf(positions) ELSE Nth(positions \ {MinOf(positions)}, i - 1)

\* C20: with maxMessages = N > 0, parseJSONL returns the last min(N, k) of
\* the k valid user and assistant messages of the file, in file order, for
\* every k; the ring returns what collecting every message and keeping the
\* last N returns.
C20_RingKeepsLastN ==
    fnIn.fn = "parseJSONL" /\ fnOut.done =>
        LET valid == ValidPositions(fnIn.kinds)
            k == Cardinality(valid)
            n == IF k < fnIn.maxMessages THEN k ELSE fnIn.maxMessages
        IN  /\ Len(fnOut.val) = n
            /\ \A i \in 1..n :
                  LET at == Nth(valid, k - n + i)
                  IN  /\ fnOut.val[i].Content = CarriedText(fnIn.kinds, at)
                      /\ fnOut.val[i].Role =
                            (IF fnIn.kinds[at] = "user" THEN RoleUser ELSE RoleAssistant)
            /\ fnOut.val = parseJSONLCollect(fnIn.entries, fnIn.maxMessages)

\* the ring has wrapped: four valid messages with N = 3, the last three kept
C20_Witness ==
    /\ fnIn.fn = "parseJSONL"
    /\ fnOut.done
    /\ fnIn.maxMessages = 3
    /\ Cardinality(ValidPositions(fnIn.kinds)) = 4
    /\ Len(fnOut.val) = 3


(***************************************************************************)
(* the tmux commands that change sessions: Manager.CreateWithArgs and the  *)
(* client's NewSession, KillSession and SendKeys                           *)
(***************************************************************************)

\* one character of the class [a-zA-Z0-9_-]
IsSafeNameChar(c) ==
    \/ \E i \in 1..26 : UpperAlpha[i] = c \/ LowerAlpha[i] = c
    \/ IsDigit(c)
    \/ c \in {"_", "-"}

\* mutant of validSessionNameRe: the pattern of the dashboard, with . and /
validSessionNameReWithPath(name) == validSessionName(name)

\* validSessionNameRe.MatchString: ^[a-zA-Z0-9_-]+$
validSessionNameRe(name) ==
    name # <<>> /\ \A i \in 1..Len(name) : IsSafeNameChar(name[i])

\* validateSessionName: TRUE stands for the error returned
validateSessionName(name) == ~validSessionNameRe(name)

\* a tmux command line, and what a call gives back: the error, and the
\* command lines it has run
TmuxRun(sub, target, startDir, command, keys) ==
    [sub |-> sub, target |-> target, startDir |-> startDir, command |-> command, keys |-> keys]

Answer(err, ran) == [done |-> TRUE, err |-> err, ran |-> ran]

\* runs is what cmd.Run() answers: TRUE for nil
NewSession(name, startDir, command, runs) ==
    IF validateSessionName(name) THEN Answer(TRUE, <<>>)
    ELSE Answer(~runs, <<TmuxRun("new-session", name, startDir, command, <<>>)>>)

KillSession(name, runs) ==
    IF validateSessionName(name) THEN Answer(TRUE, <<>>)
    ELSE Answer(~runs, <<TmuxRun("kill-session", name, <<>>, <<>>, <<>>)>>)

SendKeys(name, keys, runs) ==
    IF validateSessionName(name) THEN Answer(TRUE, <<>>)
    ELSE Answer(~runs, <<TmuxRun("send-keys", name, <<>>, <<>>, keys)>>)

\* sessionName := SessionPrefix + name; command := "claude " + claudeArgs
CreateWithArgs(name, projectDir, claudeArgs, runs) ==
    LET sessionName == SessionPrefix \o name
        command == IF claudeArgs # <<>> THEN Claude \o <<" ">> \o claudeArgs ELSE Claude
    IN  NewSession(sessionName, projectDir, command, runs)

\* the names and the texts of the calls
ClientNames == {
    <<>>, <<"a">>, <<"A","9">>, <<"a","-","b","_","1">>, <<"c","d","-","x">>,
    <<"a"," ","b">>, <<"a",".","b">>, <<"a","/","b">>, <<"a",";","b">>,
    <<"a","\n">>, <<"-">> }

\* the grave accent, which a string of this notation cannot hold
Backtick == "grave"

ShellChars == <<Backtick, ";", "|", "&", "(", ")", "{", "}", "$", "<", ">", "\n", "\r">>

ClientTexts ==
    {<<>>, <<"-","-","v">>, <<"-","p"," ","h","i">>}
        \cup {<<"f", ShellChars[i], "b">> : i \in 1..Len(ShellChars)}

ClientDirs == {<<>>, <<"/","w">>}

ClientCalls == {"CreateWithArgs", "NewSession", "KillSession", "SendKeys"}

InitClient ==
    /\ CoreQuiet
    /\ UiQuiet
    /\ PollQuiet
    /\ \E fn \in ClientCalls, name \in ClientNames, dir \in ClientDirs, text \in ClientTexts :
          fnIn = [fn |-> fn, name |-> name, dir |-> dir, text |-> text]
    /\ fnOut = NotReturned
    /\ bfsQueue = <<>>
    /\ bfsVisited = {}
    /\ taken = <<>>
    /\ disk = NoFile

ClientCall(fn, answer) ==
    /\ fnIn.fn = fn
    /\ ~fnOut.done
    /\ fnOut' = answer
    /\ UNCHANGED <<fnIn, bfsQueue, bfsVisited, taken, disk, coreVars, uiVars, pollVars>>

CallCreateWithArgs ==
    \E runs \in BOOLEAN :
       ClientCall("CreateWithArgs", CreateWithArgs(fnIn.name, fnIn.dir, fnIn.text, runs))

CallNewSession ==
    \E runs \in BOOLEAN :
       ClientCall("NewSession", NewSession(fnIn.name, fnIn.dir, Claude \o fnIn.text, runs))

CallKillSession ==
    \E runs \in BOOLEAN : ClientCall("KillSession", KillSession(fnIn.name, runs))

CallSendKeys ==
    \E runs \in BOOLEAN : ClientCall("SendKeys", SendKeys(fnIn.name, fnIn.text, runs))

NextClient ==
    \/ CallCreateWithArgs
    \/ CallNewSession
    \/ CallKillSession
    \/ CallSendKeys

SpecClient == InitClient /\ [][NextClient]_vars

(***************************************************************************)
(* properties of the tmux commands that change sessions                    *)
(***************************************************************************)
HasShellChar(s) == \E i \in 1..Len(s), j \in 1..Len(ShellChars) : s[i] = ShellChars[j]

\* C21: session creation rejects claude arguments with one of the
\* characters grave accent ; | & ( ) { } $ < > newline or carriage return: no command
\* with such a character is passed to tmux new-session.
C21_NoShellCharReachesNewSession ==
    fnIn.fn = "CreateWithArgs" /\ fnOut.done =>
        \A i \in 1..Len(fnOut.ran) :
           fnOut.ran[i].sub = "new-session" => ~HasShellChar(fnOut.ran[i].command)

\* the names made of one or more characters of a-z, A-Z, 0-9, _ and -
SafeNameChars ==
    {"a","b","c","d","x","A","9","1","_","-"}

IsSafeName(name) == name # <<>> /\ \A i \in 1..Len(name) : name[i] \in SafeNameChars

\* C22: NewSession, KillSession and SendKeys return an error, and run no
\* tmux command, when the name is not made of one or more characters of
\* [a-zA-Z0-9_-]; a name that is made of them is never rejected: the command
\* is run and its outcome returned.
C22_UnsafeNameRunsNothing ==
    fnIn.fn \in {"NewSession", "KillSession", "SendKeys"} /\ fnOut.done =>
        /\ ~IsSafeName(fnIn.name) => fnOut.err /\ fnOut.ran = <<>>
        /\ IsSafeName(fnIn.name) =>
              /\ Len(fnOut.ran) = 1
              /\ fnOut.ran[1].target = fnIn.name

\* kill-session was refused for a name with a dot, which the pattern of the
\* dashboard accepts
C22_Witness ==
    /\ fnIn.fn = "KillSession"
    /\ fnIn.name = <<"a",".","b">>
    /\ fnOut.done
    /\ fnOut.err
    /\ fnOut.ran = <<>>


(***************************************************************************)
(* FilterSessions on lists of sessions                                     *)
(***************************************************************************)
MaxFilterLen == 3

\* sessions that the word api matches in one field each, and one it does
\* not match
FilterUniverse == <<
    [Name |-> <<"c","d","-","A","p","i">>, Project |-> <<"x">>, Status |-> StatusIdle,
     Path |-> <<"/","w">>, Managed |-> TRUE],
    [Name |-> <<"s","2">>, Project |-> <<"a","P","I">>, Status |-> StatusIdle,
     Path |-> <<"/","w">>, Managed |-> TRUE],
    [Name |-> <<"s","3">>, Project |-> <<"y">>, Status |-> StatusActive,
     Path |-> <<"/","w","/","a","p","i","/","v">>, Managed |-> TRUE],
    [Name |-> <<"s","4">>, Project |-> <<"z">>, Status |-> StatusWaiting,
     Path |-> <<"/","q">>, Managed |-> TRUE],
    [Name |-> <<"t","e","r","m","i","n","a","l","/","p","t","s","/","1">>,
     Project |-> <<"k">>, Status |-> StatusTerminal, Path |-> <<"/","k">>,
     Managed |-> FALSE] >>

FilterQueries == {
    <<>>, <<"a","p","i">>, <<"A","P","I">>, <<"W","a","i","t">>, <<"/","w">>,
    <<"i">>, <<"#">> }

FilterLists ==
    UNION {[1..n -> 1..Len(FilterUniverse)] : n \in 0..MaxFilterLen}

InitFilter ==
    /\ CoreQuiet
    /\ UiQuiet
    /\ PollQuiet
    /\ \E ids \in FilterLists, q \in FilterQueries :
          fnIn = [fn |-> "FilterSessions",
                  sessions |-> [i \in 1..Len(ids) |-> FilterUniverse[ids[i]]],
                  query |-> q]
    /\ fnOut = NotReturned
    /\ bfsQueue = <<>>
    /\ bfsVisited = {}
    /\ taken = <<>>
    /\ disk = NoFile

FilterCall ==
    /\ fnIn.fn = "FilterSessions"
    /\ ~fnOut.done
    /\ fnOut' = [done |-> TRUE, val |-> FilterSessions(fnIn.sessions, fnIn.query)]
    /\ UNCHANGED <<fnIn, bfsQueue, bfsVisited, taken, disk, coreVars, uiVars, pollVars>>

NextFilter == FilterCall

SpecFilter == InitFilter /\ [][NextFilter]_vars

(***************************************************************************)
(* properties of FilterSessions                                            *)
(***************************************************************************)

\* the lowercased query is a substring of the lowercased field
FieldHasQuery(field, query) == Contains(ToLower(field), ToLower(query))

\* the status is a lowercase word already
QueryFits(s, query) ==
    \/ FieldHasQuery(s.Name, query)
    \/ FieldHasQuery(s.Project, query)
    \/ FieldHasQuery(StatusText(s.Status), query)
    \/ FieldHasQuery(s.Path, query)

\* C23: FilterSessions returns the list unchanged for the empty query, and
\* otherwise the sessions, in their order, for which the lowercased query is
\* a substring of the lowercased Name, Project, Status or Path, and no other.
C23_FilterKeepsMatchesInOrder ==
    fnIn.fn = "FilterSessions" /\ fnOut.done =>
        LET Fits(s) == QueryFits(s, fnIn.query)
        IN  IF fnIn.query = <<>> THEN fnOut.val = fnIn.sessions
            ELSE fnOut.val = SelectSeq(fnIn.sessions, Fits)

\* the query API kept the session whose path alone has api in it and
\* dropped the two around it
C23_Witness ==
    /\ fnIn.fn = "FilterSessions"
    /\ fnOut.done
    /\ fnIn.query = <<"A","P","I">>
    /\ Len(fnIn.sessions) = 3
    /\ fnIn.sessions[2] = FilterUniverse[3]
    /\ fnOut.val = <<FilterUniverse[3]>>


(***************************************************************************)
(* the names shown for a session: Session.DisplayName and extractProject   *)
(***************************************************************************)

\* func (s *Session) DisplayName() string { return s.Name }
DisplayName(s) == s.Name

NamingNames == {
    <<"c","d","-","m","y">>, <<"m","y">>, <<"c","d","-">>, <<"c","d">>,
    <<"x","c","d","-","y">>, <<"C","D","-","z">>, <<>> }

NamingPaths == {
    <<>>, <<"/">>, <<"/","/">>, <<"/","h","/","r">>, <<"/","h","/","r","/">>,
    <<"/","h","/","r","/","/">>, <<"r">>, <<"h","/","r">> }

InitNaming ==
    /\ CoreQuiet
    /\ UiQuiet
    /\ PollQuiet
    /\ \E fn \in {"DisplayName", "extractProject"}, name \in NamingNames, path \in NamingPaths :
          fnIn = [fn |-> fn, name |-> name, path |-> path]
    /\ fnOut = NotReturned
    /\ bfsQueue = <<>>
    /\ bfsVisited = {}
    /\ taken = <<>>
    /\ disk = NoFile

CallDisplayName ==
    /\ fnIn.fn = "DisplayName"
    /\ ~fnOut.done
    /\ fnOut' = [done |-> TRUE, val |-> DisplayName([Name |-> fnIn.name, Path |-> fnIn.path])]
    /\ UNCHANGED <<fnIn, bfsQueue, bfsVisited, taken, disk, coreVars, uiVars, pollVars>>

CallExtractProject ==
    /\ fnIn.fn = "extractProject"
    /\ ~fnOut.done
    /\ fnOut' = [done |-> TRUE, val |-> extractProject(fnIn.name, fnIn.path)]
    /\ UNCHANGED <<fnIn, bfsQueue, bfsVisited, taken, disk, coreVars, uiVars, pollVars>>

NextNaming ==
    \/ CallDisplayName
    \/ CallExtractProject

SpecNaming == InitNaming /\ [][NextNaming]_vars

(***************************************************************************)
(* properties of the names shown                                           *)
(***************************************************************************)
CarriesPrefix(name) == Len(name) >= 3 /\ name[1] = "c" /\ name[2] = "d" /\ name[3] = "-"

WithoutPrefix(name) == [i \in 1..(Len(name) - 3) |-> name[i + 3]]

\* C24: DisplayName returns the name without the cd- prefix when the name
\* carries it, and the name unchanged otherwise.
C24_DisplayNameStripsPrefix ==
    fnIn.fn = "DisplayName" /\ fnOut.done =>
        fnOut.val = (IF CarriesPrefix(fnIn.name) THEN WithoutPrefix(fnIn.name) ELSE fnIn.name)

\* the last component of a path, its trailing slashes ignored: what stands
\* between the last slash before the last other character and that character
ComponentEnd(path) ==
    LET other == {i \in 1..Len(path) : path[i] # "/"}
    IN  IF other = {} THEN 0 ELSE MaxOf(other)

ComponentStart(path) ==
    LET before == {i \in 1..ComponentEnd(path) : path[i] = "/"}
    IN  IF before = {} THEN 1 ELSE MaxOf(before) + 1

LastComponentOf(path) == SubSeq(path, ComponentStart(path), ComponentEnd(path))

\* C27: extractProject returns the name without the cd- prefix whenever the
\* name carries it, whatever the path, the empty string for the bare cd-;
\* otherwise the last component of a path that is not empty, its trailing
\* slashes ignored; otherwise the name.
C27_ProjectFromPrefixThenPath ==
    fnIn.fn = "extractProject" /\ fnOut.done =>
        fnOut.val = (IF CarriesPrefix(fnIn.name) THEN WithoutPrefix(fnIn.name)
                     ELSE IF fnIn.path # <<>> THEN LastComponentOf(fnIn.path)
                     ELSE fnIn.name)

\* the bare name cd- with a path gave the empty project
C27_Witness ==
    /\ fnIn.fn = "extractProject"
    /\ fnOut.done
    /\ fnIn.name = <<"c","d","-">>
    /\ fnIn.path = <<"/","h","/","r","/">>
    /\ fnOut.val = <<>>


(***************************************************************************)
(* the configuration file: Save and Load; durations are whole seconds      *)
(***************************************************************************)
DefaultConfig ==
    [RefreshInterval |-> 2, SessionPrefix |-> SessionPrefix, DefaultDir |-> <<>>,
     LogHistory |-> 1000]

\* strconv.Itoa
RECURSIVE natDigits(_)
natDigits(n) ==
    IF n < 10 THEN <<Digits[n + 1]>> ELSE Append(natDigits(n \div 10), Digits[(n % 10) + 1])

Itoa(n) == IF n < 0 THEN <<"-">> \o natDigits(0 - n) ELSE natDigits(n)

\* time.Duration.String for whole seconds: 0s, 5s, 1m30s, 1h0m5s, -2s
formatDuration(d) ==
    LET u == IF d < 0 THEN 0 - d ELSE d
        hours == IF u >= 3600 THEN Itoa(u \div 3600) \o <<"h">> ELSE <<>>
        minutes == IF u >= 60 THEN Itoa((u \div 60) % 60) \o <<"m">> ELSE <<>>
    IN  (IF d < 0 THEN <<"-">> ELSE <<>>) \o hours \o minutes \o Itoa(u % 60) \o <<"s">>

LeadingWhile(s, Test(_)) ==
    LET stop == {i \in 1..Len(s) : ~Test(s[i])}
    IN  IF stop = {} THEN Len(s) ELSE MinOf(stop) - 1

IsUnitChar(c) == ~IsDigit(c) /\ c # "."

\* the loop of time.ParseDuration: a number, then a unit, until the text ends
RECURSIVE parseUnits(_, _)
parseUnits(s, acc) ==
    IF s = <<>> THEN [ok |-> TRUE, val |-> acc]
    ELSE LET nd == LeadingWhile(s, IsDigit)
             rest == SubSeq(s, nd + 1, Len(s))
             nu == LeadingWhile(rest, IsUnitChar)
             unit == SubSeq(rest, 1, nu)
             scale == CASE unit = <<"h">> -> 3600
                        [] unit = <<"m">> -> 60
                        [] unit = <<"s">> -> 1
                        [] OTHER -> 0
         IN  IF nd = 0 \/ nu = 0 \/ scale = 0 THEN [ok |-> FALSE, val |-> 0]
             ELSE parseUnits(SubSeq(rest, nu + 1, Len(rest)),
                             acc + DigitsVal(SubSeq(s, 1, nd), 0) * scale)

parseDuration(s) ==
    LET signed == s # <<>> /\ s[1] \in {"-", "+"}
        body == IF signed THEN Tail(s) ELSE s
        r == parseUnits(body, 0)
    IN  IF body = <<"0">> THEN [ok |-> TRUE, val |-> 0]
        ELSE IF body = <<>> \/ ~r.ok THEN [ok |-> FALSE, val |-> 0]
        ELSE [ok |-> TRUE, val |-> IF signed /\ s[1] = "-" THEN 0 - r.val ELSE r.val]

\* mutant of Save: the default directory is not written
SaveWithoutDir(cfg) ==
    [exists |-> TRUE,
     refresh_interval |-> formatDuration(cfg.RefreshInterval),
     session_prefix |-> cfg.SessionPrefix,
     default_dir |-> <<>>,
     log_history |-> Itoa(cfg.LogHistory)]

\* the file Save writes: the configFile in YAML, strings as they are, the
\* interval as Duration.String prints it, the count in decimal
Save(cfg) ==
    [exists |-> TRUE,
     refresh_interval |-> formatDuration(cfg.RefreshInterval),
     session_prefix |-> cfg.SessionPrefix,
     default_dir |-> cfg.DefaultDir,
     log_history |-> Itoa(cfg.LogHistory)]

\* Load: the defaults, each replaced by what the file holds for it
Load(file) ==
    LET d == parseDuration(file.refresh_interval)
        n == Atoi(file.log_history)
    IN  IF ~file.exists THEN DefaultConfig
        ELSE [RefreshInterval |-> IF file.refresh_interval # <<>> /\ d.ok THEN d.val
                                  ELSE DefaultConfig.RefreshInterval,
              SessionPrefix |-> IF file.session_prefix # <<>> THEN file.session_prefix
                                ELSE DefaultConfig.SessionPrefix,
              DefaultDir |-> IF file.default_dir # <<>> THEN file.default_dir
                             ELSE DefaultConfig.DefaultDir,
              LogHistory |-> IF n > 0 THEN n ELSE DefaultConfig.LogHistory]

ConfigIntervals == {0, 2, 59, 90, 3600, 3725, 0 - 5}
ConfigPrefixes == {<<>>, SessionPrefix, <<"x">>}
ConfigDirs == {<<>>, <<"/","w">>}
ConfigHistories == {0 - 1, 0, 1, 20, 1000}

Configs ==
    [RefreshInterval : ConfigIntervals, SessionPrefix : ConfigPrefixes,
     DefaultDir : ConfigDirs, LogHistory : ConfigHistories]

InitConfig ==
    /\ CoreQuiet
    /\ UiQuiet
    /\ PollQuiet
    /\ \E cfg \in Configs : fnIn = [fn |-> "Save", cfg |-> cfg]
    /\ fnOut = NotReturned
    /\ bfsQueue = <<>>
    /\ bfsVisited = {}
    /\ taken = <<>>
    /\ disk = NoFile

\* Save(cfg); os.MkdirAll or os.WriteFile may fail and leave no file
SaveCall ==
    /\ fnIn.fn = "Save"
    /\ ~disk.exists
    /\ ~fnOut.done
    /\ \E written \in BOOLEAN : disk' = IF written THEN Save(fnIn.cfg) ELSE disk
    /\ UNCHANGED <<fnIn, fnOut, bfsQueue, bfsVisited, taken, coreVars, uiVars, pollVars>>

LoadCall ==
    /\ fnIn.fn = "Save"
    /\ ~fnOut.done
    /\ fnOut' = [done |-> TRUE, val |-> Load(disk)]
    /\ UNCHANGED <<fnIn, bfsQueue, bfsVisited, taken, disk, coreVars, uiVars, pollVars>>

NextConfig ==
    \/ SaveCall
    \/ LoadCall

SpecConfig == InitConfig /\ [][NextConfig]_vars

(***************************************************************************)
(* properties of the configuration file                                    *)
(***************************************************************************)
LoadedAfterSave == fnIn.fn = "Save" /\ disk.exists /\ fnOut.done

\* C26 as stated: for every Config, Load after Save returns a Config equal
\* to the saved one in all four fields.
C26_LoadReturnsWhatWasSaved ==
    LoadedAfterSave => fnOut.val = fnIn.cfg

\* C26 amended: Load after Save returns the saved RefreshInterval and
\* DefaultDir, the saved SessionPrefix unless it is empty and the saved
\* LogHistory unless it is zero or negative; an empty SessionPrefix is loaded
\* as cd- and a LogHistory of zero or less as 1000.
C26_LoadReturnsSavedOrDefault ==
    LoadedAfterSave =>
        /\ fnOut.val.RefreshInterval = fnIn.cfg.RefreshInterval
        /\ fnOut.val.DefaultDir = fnIn.cfg.DefaultDir
        /\ fnOut.val.SessionPrefix =
              (IF fnIn.cfg.SessionPrefix = <<>> THEN <<"c","d","-">> ELSE fnIn.cfg.SessionPrefix)
        /\ fnOut.val.LogHistory =
              (IF fnIn.cfg.LogHistory <= 0 THEN 1000 ELSE fnIn.cfg.LogHistory)

\* a Config of more than an hour, with its own prefix, directory and count,
\* came back as saved
C26_Witness ==
    /\ LoadedAfterSave
    /\ fnIn.cfg.RefreshInterval = 3725
    /\ fnIn.cfg.SessionPrefix = <<"x">>
    /\ fnIn.cfg.DefaultDir = <<"/","w">>
    /\ fnIn.cfg.LogHistory = 20
    /\ fnOut.val = fnIn.cfg


(***************************************************************************)
(* properties of Run(), the loop around the dashboard program              *)
(***************************************************************************)
ExitedWithTarget == run.at = "tui" /\ quit /\ model.err # ErrPanic /\ model.attachTarget # <<>>

AttachedTo(name) == run.at = "attach" /\ run.target = name

FreshDashboard ==
    /\ run.at = "tui"
    /\ ~quit
    /\ model = NewModel
    /\ cmds = SeqToBag(<<refreshSessions, TickCmd>>)

\* C25: Run returns only when the program exits with no attach target or
\* with an error; when the program exits with an attach target the next step
\* of Run is tmux attach-session for exactly that target, and when that
\* ends Run starts a fresh dashboard again (or returns the error of New);
\* after Run returned nothing more happens.
C25_RunAttachesThenStartsAgain ==
    [][/\ (run.at # "returned" /\ run'.at = "returned") =>
              \/ run'.err # NoErr
              \/ run.at = "tui" /\ quit /\ model.attachTarget = <<>>
       /\ ExitedWithTarget => AttachedTo(model.attachTarget)'
       /\ run'.at = "attach" => (ExitedWithTarget \/ run.at = "attach")
       /\ (run.at = "attach" /\ run'.at # "attach") =>
              \/ FreshDashboard'
              \/ run'.at = "returned" /\ run'.err # NoErr
       /\ run.at = "returned" => run' = run]_vars

\* tmux attach-session runs for cd-d, the session enter was pressed on
C25_Witness == AttachedTo(<<"c","d","-","d">>) /\ model.attachTarget = <<"c","d","-","d">>


\* C28: after any sequence of messages (key presses, SessionsMsg refreshes
\* that empty the list and fill it again, filter changes) the cursor is never
\* negative, and no handler and no View reads the filtered session list at
\* an index outside [0, len): no index-out-of-range panic ends the program.
C28_CursorNeverNegativeNoIndexOutOfRange ==
    /\ model.cursor >= 0
    /\ model.err # ErrPanic


\* C29: the session name handed to Manager.Kill on confirmation is the name
\* written in the confirmation prompt when K was pressed, also when a
\* SessionsMsg refreshed, shrank or re-ordered the list between the prompt
\* and the y key.
C29_KillsTheSessionNamedInThePrompt ==
    [][\A c \in BagToSet(cmds') :
          (c.kind = "kill" /\ CopiesIn(c, cmds') > CopiesIn(c, cmds)) =>
              (model.confirming /\ c.name = model.confirmMsg)]_vars


(***************************************************************************)
(* the order in which the pane tail decides the status                     *)
(***************************************************************************)
IsPromptMarker(line) ==
    /\ line # <<>>
    /\ \/ line[1] = ">"
       \/ \E i \in 1..Len(line) : line[i] = "U+276F"
       \/ line[Len(line)] = "$"

\* the most recent non-blank line among the last 20 of the pane, or <<>>
NewestNonBlankLine ==
    LET lines == Split(stIn.capture.content, "\n")
        seen == {j \in 1..Len(lines) : j > Len(lines) - 20 /\ TrimSpace(lines[j]) # <<>>}
    IN  IF seen = {} THEN <<>>
        ELSE TrimSpace(lines[CHOOSE j \in seen : \A k \in seen : k <= j])

\* C30: for a stale session the tail is read most recent line first and the
\* first non-blank line that matches decides: when the most recent
\* non-blank line is a prompt marker (and no waiting pattern) the status is
\* Idle, also when an older inspected line ends in ? or holds a y/n pattern.
C30_NewestPromptLineDecidesIdle ==
    (/\ StatusCallDone
     /\ StaleActivity
     /\ ~stIn.capture.err
     /\ IsPromptMarker(NewestNonBlankLine)
     /\ ~IsWaitingLine(NewestNonBlankLine))
        => stOut.status = StatusIdle


----------------------------------------------------------------------------
(* the process snapshots of one Detect call *)

\* C31: within one Detect call the descendant matcher and the terminal scan
\* observe the same process snapshot, captured once before either runs: the
\* processes the terminal scan saw are those of the table used for
\* descendant matching.
C31_OneSnapshotForMatcherAndScan ==
    (Returned /\ seenTable.taken /\ seenTable.ok /\ seenScan.ok)
        => seenScan.procs = seenTable.procs


----------------------------------------------------------------------------
(* concurrent callers of the cached resolver *)

\* C32: when two callers look up the same pid concurrently with no live
\* cache entry for it, lsof is still invoked at most once for that pid
\* within the 10 seconds of the TTL: no caller is on the resolving path for
\* a pid while another caller is, and inside the first TTL window no pid has
\* had more than one lsof invocation.
C32_OneResolutionPerPidInWindow ==
    /\ \A c1, c2 \in Callers :
          (c1 # c2 /\ OnMissPath(c1) /\ OnMissPath(c2)) => creq[c1].pid # creq[c2].pid
    /\ now < 10 => \A pid \in DOMAIN lsofCalls : lsofCalls[pid] <= 1


\* where getProcessCWD reads the map (the cache test) and writes it (the store)
TouchesMap(c) == cpc[c] \in {"check", "store"}

\* C33: every read and every write of the cwdCache map happens while
\* cwdCacheMu is held by the caller that makes it, so no two callers are at
\* the map at the same time; the mutex is released on every path (a caller
\* that returned does not hold it) and is not held by a caller across its
\* lsof invocation; the map changes only in a step of the holder.
C33_MapOnlyUnderMutex ==
    [][/\ \A c \in Callers :
             /\ TouchesMap(c) => cwdCacheMu = c
             /\ cpc[c] \in {"idle", "lsof", "relock"} => cwdCacheMu # c
             /\ lsofCalls' # lsofCalls /\ cpc[c] = "lsof" /\ cpc'[c] # "lsof" => cwdCacheMu # c
       /\ \A c1, c2 \in Callers : (TouchesMap(c1) /\ TouchesMap(c2)) => c1 = c2
       /\ cwdCache' # cwdCache =>
             \E c \in Callers : cwdCacheMu = c /\ cpc[c] = "store" /\ cwdCacheMu' = "free"]_vars

\* one caller stores its result under the mutex while the other runs lsof
C33_Witness ==
    /\ cpc["c1"] = "store"
    /\ cwdCacheMu = "c1"
    /\ cpc["c2"] = "lsof"
    /\ creq["c1"].pid = creq["c2"].pid


----------------------------------------------------------------------------
(* the discovery passes of the dashboard in the order they were started:   *)
(* the r key and the timer start them, each SessionsMsg ends one           *)

MaxPasses == 4      \* discovery passes started per behaviour

\* the passes the commands cs start, numbered after those already started
Started(ps, count) ==
    [ps EXCEPT !.started = @ + count,
               !.flying = @ \cup {ps.started + k : k \in 1..count}]

NewPasses(before, after) == CopiesIn(refreshSessions, after) - CopiesIn(refreshSessions, before)

\* Init: the batch started with the program holds the first pass
InitPasses ==
    /\ CoreQuiet
    /\ PollQuiet
    /\ FnQuiet
    /\ model = NewModel
    /\ cmds = SeqToBag(InitCmds)
    /\ quit = FALSE
    /\ run = InTui
    /\ passes = Started(NoPasses, 1)

\* the r key: Update returns m.refreshSessions
PassKey ==
    /\ ~quit
    /\ passes.started < MaxPasses
    /\ AfterUpdate(UpdateKey(model, "r", <<>>, <<>>, <<>>), cmds)
    /\ passes' = Started(passes, NewPasses(cmds, cmds'))
    /\ UNCHANGED <<run, coreVars, pollVars, fnVars>>

\* TickMsg: Update returns m.refreshSessions and the next tick
PassTick ==
    /\ ~quit
    /\ passes.started < MaxPasses
    /\ BagIn(TickCmd, cmds)
    /\ AfterUpdate(UpdateTick(model), cmds (-) SetToBag({TickCmd}))
    /\ passes' = Started(passes, NewPasses(cmds (-) SetToBag({TickCmd}), cmds'))
    /\ UNCHANGED <<run, coreVars, pollVars, fnVars>>

\* the pass started as number k ends, its goroutine being scheduled whenever:
\* Manager.List reported the sessions h, or failed; SessionsMsg reaches Update
PassEnds(k, msg) ==
    /\ ~quit
    /\ k \in passes.flying
    /\ AfterUpdate(UpdateMsg(model, msg), cmds (-) SetToBag({refreshSessions}))
    /\ passes' = [passes EXCEPT !.flying = @ \ {k},
                                !.shown = IF msg.Err = NoErr THEN k ELSE @,
                                !.newest = IF msg.Err = NoErr /\ k > @ THEN k ELSE @]
    /\ UNCHANGED <<run, coreVars, pollVars, fnVars>>

PassReports ==
    \E k \in 1..MaxPasses, h \in SUBSET UiIds : PassEnds(k, SessionsMsg(List(h), NoErr))

PassFails == \E k \in 1..MaxPasses : PassEnds(k, SessionsMsg(<<>>, ErrList))

NextPasses ==
    \/ PassKey
    \/ PassTick
    \/ PassReports
    \/ PassFails

SpecPasses == InitPasses /\ [][NextPasses]_vars

\* C34: the session list the model holds is always the result of the most
\* recently started discovery pass among those that have completed with a
\* list: the SessionsMsg of an older refresh never overwrites the result of
\* a refresh that was started later.
C34_ListIsOfNewestCompletedPass == passes.shown = passes.newest


----------------------------------------------------------------------------
(* a poll whose pane-PID lookups fail *)

PanePidLookupFails(n) == TmuxUniverse[n].panePid.err

\* the pane PIDs tmux printed for the returned sessions
PanePidsPrinted ==
    {pid \in {ProcUniverse[i].pid : i \in ProcIds} :
        \E n \in ListedSessions :
            IsReturnedManaged(n) /\ TmuxUniverse[n].panePid = Printed(<<pid>>)}

\* C35: a candidate tmux session whose pane-PID lookup fails is still
\* returned, Managed=true with an empty PID, and adds nothing to the set of
\* PIDs handed to the terminal scan: the set holds the printed pane PIDs of
\* the returned sessions and never the empty PID, so such a session
\* excludes no terminal process.
C35_FailedPidLookupKeepsSessionExcludesNothing ==
    (Returned /\ ~TerminalOnly) =>
        /\ \A n \in ListedSessions :
              (NameQualifies(n) /\ PanePidLookupFails(n)) =>
                  \E k \in ManagedAt :
                      /\ ret.sessions[k].Name = NameOf(n)
                      /\ ret.sessions[k].PID = <<>>
        /\ <<>> \notin tmuxPIDs
        /\ tmuxPIDs = PanePidsPrinted
        /\ seenScan.ok =>
              \A i \in seenScan.procs :
                  (RunsClaude(i) /\ HasTty(i) /\ ProcUniverse[i].pid \notin PanePidsPrinted)
                      => \E k \in TerminalAt : ret.sessions[k].PID = ProcUniverse[i].pid

\* myClaude, whose pane lookups fail, is the only session returned for
\* tmux, and the claude of the terminal tab is returned beside it
C35_Witness ==
    /\ Returned /\ ~TerminalOnly /\ seenScan.ok
    /\ tmuxSess = {3}
    /\ PanePidLookupFails(3)
    /\ \E k \in ManagedAt : ret.sessions[k].Name = NameOf(3) /\ ret.sessions[k].PID = <<>>
    /\ tmuxPIDs = {}
    /\ \E k \in TerminalAt : ret.sessions[k].PID = ProcUniverse[4].pid


\* lsof fails for the pid or prints no line that starts with n/
CwdUnresolvable(pid) ==
    \/ LsofOf(pid).err
    \/ LET lines == Split(LsofOf(pid).text, "\n")
       IN  ~\E j \in 1..Len(lines) :
               Len(lines[j]) >= 2 /\ lines[j][1] = "n" /\ lines[j][2] = "/"

\* the rows of the scan that name claude on a terminal outside tmuxPIDs
ScanRowsOfClaude ==
    {i \in seenScan.procs :
        RunsClaude(i) /\ HasTty(i) /\ ProcUniverse[i].pid \notin tmuxPIDs}

\* C36: a tty-attached claude process whose working directory cannot be
\* resolved is still emitted by DetectTerminalSessions, with an empty Path
\* and an empty Project; the failed resolution drops no session and does
\* not end the scan: every claude row of the scan has its Session.
C36_UnresolvedCwdStillEmitted ==
    (Returned /\ seenScan.ok) =>
        /\ \A i \in ScanRowsOfClaude :
              \E k \in TerminalAt :
                  /\ ret.sessions[k].PID = ProcUniverse[i].pid
                  /\ CwdUnresolvable(ProcUniverse[i].pid)
                        => (ret.sessions[k].Path = <<>> /\ ret.sessions[k].Project = <<>>)
        /\ Cardinality(TerminalAt) = Cardinality(ScanRowsOfClaude)

\* lsof fails for the claude below the pane shell, which is emitted without
\* a path, and the row after it, the claude of the terminal tab, is emitted
\* with the path lsof printed
C36_Witness ==
    /\ Returned /\ seenScan.ok
    /\ {2, 4} \subseteq ScanRowsOfClaude
    /\ LsofOf(ProcUniverse[2].pid).err
    /\ \E k1, k2 \in TerminalAt :
          /\ k1 < k2
          /\ ret.sessions[k1].PID = ProcUniverse[2].pid
          /\ ret.sessions[k1].Path = <<>> /\ ret.sessions[k1].Project = <<>>
          /\ ret.sessions[k2].PID = ProcUniverse[4].pid
          /\ ret.sessions[k2].Path # <<>>


----------------------------------------------------------------------------
(* the timer of the dashboard *)

PendingTicks == CopiesIn([kind |-> "tick", name |-> <<>>, sel |-> TRUE], cmds)

ProgramRuns == run.at = "tui" /\ ~quit

\* C38: while the program runs exactly one poll tick is pending at any
\* time: Init schedules one, every TickMsg schedules exactly one successor
\* together with one refresh, and no other message schedules a tick, so
\* the periodic refreshes neither stop nor multiply.
C38_ExactlyOneTickPending == ProgramRuns => PendingTicks = 1

\* the timer fired with the first pass still running: two passes run and
\* the next tick is pending
C38_Witness ==
    /\ ProgramRuns
    /\ PendingTicks = 1
    /\ CopiesIn(refreshSessions, cmds) = 2
    /\ model = NewModel


----------------------------------------------------------------------------
(* GetChildProcessInfo(pid, table): one call, iteration by iteration; CPU   *)
(* and memory are whole numbers of tenths of a percent                     *)

MaxTableRows == 3   \* rows of the process table

InfoPids == {Itoa(i) : i \in 1..MaxTableRows}

\* the pids asked for: the empty pid, pids of the table, a pid with no row
InfoRoots == {<<>>, <<"1">>, <<"2">>, <<"9">>}

\* the usage ps printed for a pid: every sum of rows tells its rows
RECURSIVE TwoTo(_)
TwoTo(n) == IF n = 0 THEN 1 ELSE 2 * TwoTo(n - 1)

CpuOf(p) == TwoTo(Atoi(p) - 1)
MemOf(p) == 100 * TwoTo(Atoi(p) - 1)

\* ProcessTable: for every pid that has a row its ProcessTableEntry; the
\* parent is any pid, the pid itself or one of its descendants included
InfoTables ==
    UNION {[rows -> InfoPids \cup {<<"0">>, <<"9">>}] : rows \in SUBSET InfoPids}

EntryOf(table, p) == [PID |-> p, PPID |-> table[p], CPU |-> CpuOf(p), Mem |-> MemOf(p)]

\* childrenOf[current] as the range over the map built it, in one of the
\* orders the iteration over a Go map produces
ChildSet(table, current) == {p \in DOMAIN table : EntryOf(table, p).PPID = current}

Orderings(set) ==
    {l \in [1..Cardinality(set) -> set] :
        \A i, j \in 1..Cardinality(set) : l[i] = l[j] => i = j}

\* mutant of addEntry: only the CPU of the row is added
addEntryCPUOnly(info, table, current) ==
    IF current \in DOMAIN table
    THEN [info EXCEPT !.CPU = @ + EntryOf(table, current).CPU]
    ELSE info

\* if entry, ok := table[current]; ok { info.CPU += ...; info.Memory += ... }
addEntry(info, table, current) ==
    IF current \in DOMAIN table
    THEN [info EXCEPT !.CPU = @ + EntryOf(table, current).CPU,
                      !.Memory = @ + EntryOf(table, current).Mem]
    ELSE info

InitInfo ==
    /\ CoreQuiet
    /\ UiQuiet
    /\ PollQuiet
    /\ \E pid \in InfoRoots, table \in InfoTables :
          fnIn = [fn |-> "GetChildProcessInfo", pid |-> pid, table |-> table]
    /\ fnOut = NotReturned
    /\ bfsQueue = <<>>
    /\ bfsVisited = {}
    /\ taken = <<>>
    /\ disk = NoFile

\* the call begins: an empty pid returns at once, otherwise queue := {pid}
InfoCall ==
    /\ fnIn.fn = "GetChildProcessInfo"
    /\ fnOut = NotReturned
    /\ fnOut' = [done |-> fnIn.pid = <<>>,
                 val |-> [PID |-> fnIn.pid, CPU |-> 0, Memory |-> 0]]
    /\ bfsQueue' = IF fnIn.pid = <<>> THEN <<>> ELSE <<fnIn.pid>>
    /\ UNCHANGED <<fnIn, bfsVisited, taken, disk, coreVars, uiVars, pollVars>>

\* one iteration of "for len(queue) > 0"
InfoStep ==
    /\ fnIn.fn = "GetChildProcessInfo"
    /\ fnOut # NotReturned
    /\ ~fnOut.done
    /\ bfsQueue # <<>>
    /\ LET current == Head(bfsQueue)
       IN  IF alreadyVisited(current, bfsVisited)
           THEN /\ bfsQueue' = Tail(bfsQueue)
                /\ taken' = Append(taken, [pid |-> current, expanded |-> FALSE])
                /\ UNCHANGED <<bfsVisited, fnOut>>
           ELSE /\ bfsVisited' = bfsVisited \cup {current}
                /\ fnOut' = [fnOut EXCEPT !.val = addEntry(@, fnIn.table, current)]
                /\ \E kids \in Orderings(ChildSet(fnIn.table, current)) :
                      bfsQueue' = Tail(bfsQueue) \o kids
                /\ taken' = Append(taken, [pid |-> current, expanded |-> TRUE])
    /\ UNCHANGED <<fnIn, disk, coreVars, uiVars, pollVars>>

\* the queue is empty: return info
InfoReturn ==
    /\ fnIn.fn = "GetChildProcessInfo"
    /\ fnOut # NotReturned
    /\ ~fnOut.done
    /\ bfsQueue = <<>>
    /\ fnOut' = [fnOut EXCEPT !.done = TRUE]
    /\ UNCHANGED <<fnIn, bfsQueue, bfsVisited, taken, disk, coreVars, uiVars, pollVars>>

NextInfo ==
    \/ InfoCall
    \/ InfoStep
    \/ InfoReturn

SpecInfo == InitInfo /\ [][NextInfo]_vars

(***************************************************************************)
(* properties of GetChildProcessInfo                                       *)
(***************************************************************************)
\* pid and every pid reachable from it through the parent links of the rows
RECURSIVE ReachedWithin(_, _)
ReachedWithin(found, n) ==
    IF n = 0 THEN found
    ELSE ReachedWithin(found \cup {p \in DOMAIN fnIn.table : fnIn.table[p] \in found}, n - 1)

ProcessTree == ReachedWithin({fnIn.pid}, Cardinality(DOMAIN fnIn.table))

RECURSIVE TotalOf(_, _)
TotalOf(set, unit) ==
    IF set = {} THEN 0
    ELSE LET p == CHOOSE x \in set : TRUE
         IN  unit * TwoTo(Atoi(p) - 1) + TotalOf(set \ {p}, unit)

RowsOfTree == ProcessTree \cap DOMAIN fnIn.table

ParentCycle ==
    \E p \in DOMAIN fnIn.table :
        p \in ReachedWithin({q \in DOMAIN fnIn.table : fnIn.table[q] = p},
                            Cardinality(DOMAIN fnIn.table))

\* C39: GetChildProcessInfo(pid, table) returns the sums of CPU and of
\* memory over exactly pid and the processes reachable from it through the
\* parent-to-child links of the table, each process counted once; it
\* terminates also when the parent links hold a cycle (the iterations never
\* exceed one more than the rows, and the call can always go on or return);
\* an empty pid gives zero totals.
C39_SumsOverTheProcessTreeOnce ==
    /\ fnOut # NotReturned =>
          /\ Len(taken) <= 1 + Cardinality(DOMAIN fnIn.table)
          /\ \A i, j \in 1..Len(taken) :
                (taken[i].expanded /\ taken[j].expanded /\ taken[i].pid = taken[j].pid) => i = j
          /\ fnOut.done \/ bfsQueue # <<>> \/ ENABLED InfoReturn
    /\ (fnOut # NotReturned /\ fnOut.done) =>
          /\ fnOut.val.PID = fnIn.pid
          /\ fnIn.pid = <<>> => (fnOut.val.CPU = 0 /\ fnOut.val.Memory = 0)
          /\ fnIn.pid # <<>> =>
                /\ fnOut.val.CPU = TotalOf(RowsOfTree, 1)
                /\ fnOut.val.Memory = TotalOf(RowsOfTree, 100)

\* the rows of pids 2 and 3 name each other as parent, and the call for
\* pid 2 returned the usage of both
C39_Witness ==
    /\ fnOut # NotReturned /\ fnOut.done
    /\ fnIn.pid = <<"2">>
    /\ ParentCycle
    /\ RowsOfTree = {<<"2">>, <<"3">>}
    /\ fnOut.val.CPU = 6
    /\ \E i \in 1..Len(taken) : ~taken[i].expanded


----------------------------------------------------------------------------
(* the dashboard list on the screen: the Model with the fields View reads, *)
(* height and scrollOffset, beside those the handlers read                  *)

\* the Model value mm with its height and scrollOffset fields
OnScreen(mm, height, scrollOffset) ==
    [f \in DOMAIN mm \cup {"height", "scrollOffset"} |->
        IF f = "height" THEN height
        ELSE IF f = "scrollOffset" THEN scrollOffset
        ELSE mm[f]]

\* visibleSessionRows
visibleSessionRows(mm) == IF mm.height - 6 < 1 THEN 1 ELSE mm.height - 6

\* handleDashboardKey, cases up and down: what they do to scrollOffset once
\* the cursor has moved from before.cursor to mm.cursor
scrollWithCursor(before, mm, key) ==
    IF before.confirming \/ before.filtering \/ before.view # ViewDashboard
       \/ mm.cursor = before.cursor
    THEN mm
    ELSE IF key \in {"up", "k"}
    THEN (IF mm.cursor < mm.scrollOffset THEN [mm EXCEPT !.scrollOffset = mm.cursor] ELSE mm)
    ELSE IF key \in {"down", "j"}
    THEN (IF mm.cursor >= mm.scrollOffset + visibleSessionRows(mm)
          THEN [mm EXCEPT !.scrollOffset = mm.cursor - visibleSessionRows(mm) + 1]
          ELSE mm)
    ELSE mm

\* View, case ViewDashboard: the scrollOffset given to RenderDashboard. View
\* has a value receiver: the clamped value is not kept in the Model
clampedOffset(mm) ==
    LET n == Len(filteredSessions(mm))
        rows == visibleSessionRows(mm)
        o1 == IF mm.scrollOffset > n - rows THEN n - rows ELSE mm.scrollOffset
    IN  IF o1 < 0 THEN 0 ELSE o1

\* RenderDashboard: the indexes of the rows drawn, i := scrollOffset; i < end
renderedRows(mm) ==
    LET n == Len(filteredSessions(mm))
        end == IF clampedOffset(mm) + visibleSessionRows(mm) > n THEN n
               ELSE clampedOffset(mm) + visibleSessionRows(mm)
    IN  {i \in 0..(n - 1) : clampedOffset(mm) <= i /\ i < end}

\* the terminal heights that arrive: one row of sessions, two rows
ScreenHeights == {7, 8}

\* View returns "Loading..." until the first WindowSizeMsg has set the size
hasSize(mm) == mm.height # 0

ScrollKeys == {"up", "down", "/", "esc", "enter"}

InitScroll ==
    /\ CoreQuiet
    /\ PollQuiet
    /\ FnQuiet
    /\ model = OnScreen(NewModel, 0, 0)
    /\ cmds = EmptyBag
    /\ quit = FALSE
    /\ run = InTui
    /\ passes = NoPasses

\* tea.WindowSizeMsg
ScrollResize ==
    /\ \E h \in ScreenHeights : model' = [model EXCEPT !.height = h]
    /\ UNCHANGED <<cmds, quit, run, passes, coreVars, pollVars, fnVars>>

\* a key of the list or of the filter input reaches Update; the keys taken
\* are those that return no command while the filter or the list has them
ScrollKey ==
    /\ \E key \in ScrollKeys, typed \in TypedNow :
          LET r == UpdateKey(model, key, typed, <<>>, <<>>)
          IN  /\ r.cmd = <<>>
              /\ ~r.quit
              /\ model' = scrollWithCursor(model, r.m, key)
    /\ UNCHANGED <<cmds, quit, run, passes, coreVars, pollVars, fnVars>>

\* SessionsMsg of a refresh
ScrollRefresh ==
    /\ \E h \in SUBSET UiIds : model' = UpdateMsg(model, SessionsMsg(List(h), NoErr)).m
    /\ UNCHANGED <<cmds, quit, run, passes, coreVars, pollVars, fnVars>>

NextScroll ==
    \/ ScrollResize
    \/ ScrollKey
    \/ ScrollRefresh

SpecScroll == InitScroll /\ [][NextScroll]_vars

\* C37: in the dashboard view, whenever the filtered session list is not
\* empty, the cursor row is one of the rows RenderDashboard draws after
\* View clamped scrollOffset, after any sequence of up and down keys,
\* filter changes, session refreshes and window resizes.
C37_CursorRowIsRendered ==
    (hasSize(model) /\ model.view = ViewDashboard /\ filteredSessions(model) # <<>>)
        => model.cursor \in renderedRows(model)

====
